---- MODULE Spec2Model ----
(***************************************************************************)
(* A model of pyslsk (src/src): the frame codec, the message dispatcher    *)
(* of SoulseekClient, the DownloadManager, ServerConnection, the session   *)
(* orchestration (connect / reconnect / close) of SoulseekClient, the      *)
(* AuthManager and the SearchManager.                                      *)
(*                                                                         *)
(* asyncio semantics assumed throughout (CPython 3.8 and later):           *)
(*  - coroutines of one event loop interleave only at an await that really *)
(*    suspends; every action below runs from one suspension to the next;   *)
(*  - Task.cancel() makes the task's pending await raise CancelledError    *)
(*    the next time the task runs;                                         *)
(*  - CancelledError derives from BaseException, so "except Exception"     *)
(*    and contextlib.suppress(Exception) do not catch it;                  *)
(*  - EventEmitter.emit awaits coroutine listeners (events.py 42-43), so   *)
(*    an emit is a point where the caller may be suspended.                *)
(***************************************************************************)
EXTENDS Integers, Sequences, FiniteSets, TLC

(***************************************************************************)
(* Program constants (src/src/constants.py)                                *)
(***************************************************************************)
MSG_LOGIN_OK == 2
MSG_LOGIN_ERROR == 3
MSG_SEARCH_RESULT == 17

(***************************************************************************)
(* Bounds of the model                                                     *)
(***************************************************************************)
\* messages the peer encodes onto the wire
MaxFrames == 2
\* bytes of payload per message
MaxPayload == 1
\* pending waits ever registered with the dispatcher
MaxWaits == 3
\* chunks a peer sends for one transfer
MaxChunks == 2
\* calls of DownloadManager.cancel
MaxCancels == 2
\* _reconnect tasks ever created
MaxReconnects == 2
\* calls of ServerConnection.close on one connection
MaxCloses == 2
\* calls of SoulseekClient.close
MaxClientCloses == 2
\* calls of AuthManager.authenticate
MaxAuths == 2
\* calls of ServerConnection.send on one connection
MaxSends == 1
\* messages the server sends while a search is under way
MaxResults == 2
\* the timeout of a search, in clock ticks
MaxTimeout == 1
\* results in the set handed to download_folder
MaxFolderResults == 3

VARIABLES
  \* ---- frame codec and receive buffer (protocol.py, connection.py) ----
  sent,             \* messages the peer passed to pack_message, in order
  stream,           \* every byte put on the wire so far
  pos,              \* number of bytes of stream already read by _recv_loop
  recv_buffer,      \* ServerConnection._recv_buffer
  frames,           \* frames yielded by iter_frames so far, in order
  msgs,             \* messages parse_message produced and handed to on_message
  codec_pc,         \* "reading" | "failed" (parse_message raised)
  \* ---- dispatcher (client.py) ----
  message_waiters,  \* SoulseekClient._message_waiters: sequence of wait ids
  wait_pred,        \* predicate of each wait: the set of codes it accepts
  fut,              \* state of each wait's future
  fut_result,       \* the message code set as the future's result (0: none)
  wait_pc,          \* position of the caller of _wait_for_message
  \* ---- download manager (download.py) ----
  active,           \* DownloadManager._active: the registered handle ids
  status,           \* DownloadHandle.status ("none": no such handle)
  bytes_received,   \* DownloadHandle.bytes_received
  error,            \* DownloadHandle.error is set
  local_bytes,      \* the local bytes_received of _run
  chunks,           \* sizes of the chunks written to the destination file
  writer,           \* the peer connection: "none" | "open" | "closed"
  notifications,    \* per transfer, the notifications emitted, in order
  dl_pc,            \* position of the caller of download_file
  run_pc,           \* position of the task handle._future running _run
  must_cancel,      \* Task.cancel() was called and not yet delivered
  cancels,          \* number of cancel() calls made so far
  cancel_from,      \* status a transfer had when a cancel() first aborted it
  \* ---- ServerConnection objects (connection.py) ----
  sock,             \* _reader/_writer: "none" | "open" | "closed"
  recv_pc,          \* position of the task _task running _recv_loop
  recv_must_cancel, \* _task.cancel() was called and not yet delivered
  closed_ev,        \* the _closed event is set
  disc_calls,       \* arguments of the calls of _on_disconnect, in order
  close_pc,         \* position of the running call of close()
  close_log,        \* how each finished call of close() ended
  closes,           \* number of close() calls started
  \* ---- SoulseekClient session (client.py) ----
  auto_reconnect,   \* constructor argument
  stop_flag,        \* _stop_flag
  connected,        \* the _connected event is set
  ping_task,        \* _ping_task: "none" | "running" | "cancelled"
  cur_conn,         \* _conn: 0 for None, else the ServerConnection
  reconnect_task,   \* _reconnect_task: 0 for None, else the task
  task_pc,          \* position of the user's connect() call (0) and of
                    \* each _reconnect task
  task_conn,        \* the ServerConnection a connect() call created
  client_close_pc,  \* position of the running call of SoulseekClient.close()
  client_close_log, \* how each finished call of SoulseekClient.close() ended
  client_closes,    \* number of SoulseekClient.close() calls started
  \* ---- AuthManager (auth.py) ----
  lock_locked,      \* AuthManager._lock is held
  lock_waiters,     \* the callers queued on the lock, in order
  auth_pc,          \* position of each call of authenticate
  auth_out,         \* how each call of authenticate ended
  auth_wait,        \* the wait a call registered with _wait_for_message
  auth_missed,      \* whether a login reply was dispatched before the call's wait
  \* ---- listeners of the dispatcher and SearchManager.search ----
  inbox,            \* the messages that arrived on the connection, in order
  rx,               \* how many of them _recv_loop handed to on_message
  rx_pc,            \* the receive task: "reading" | "in_message"
  listeners,        \* SoulseekClient._listeners[MSG_SEARCH_RESULT]
  sub_kind,         \* what each registered callback does when called
  disp_rest,        \* the listeners a suspended _dispatch_message has yet to call
  disp_log,         \* per dispatched message: its index, the listeners
                    \* registered when it was dispatched, those called so far
  log_count,        \* number of log events emitted for raising listeners
  search_pc,        \* position of the generator of search()
  search_out,       \* how the generator ended
  search_query,     \* the query argument
  stop_left,        \* ticks from now to the deadline "stop"
  remaining,        \* the local "remaining" of the last iteration
  queue,            \* the results queue: indices into inbox
  yielded,          \* the results yielded to the consumer: indices into inbox
  \* ---- ServerConnection.send (connection.py) ----
  send_log,         \* per connection, how each call of send() went
  \* ---- DownloadManager.download_folder (download.py) ----
  folder_pc,        \* position of the call of download_folder
  folder_user,      \* its argument user
  folder_path,      \* its argument folder_path
  folder_results,   \* its argument results
  folder_r,         \* the result the outer loop is at (index into results)
  folder_f,         \* the file of that result the inner loop is at
  folder_calls,     \* the download_file calls made: handle, arguments, record
  tasks             \* the local list "tasks": the handles collected

codecVars == <<sent, stream, pos, recv_buffer, frames, msgs, codec_pc>>
dispVars == <<message_waiters, wait_pred, fut, fut_result, wait_pc>>
dlVars == <<active, status, bytes_received, error, local_bytes, chunks, writer,
            notifications, dl_pc, run_pc, must_cancel, cancels, cancel_from>>
connVars == <<sock, recv_pc, recv_must_cancel, closed_ev, disc_calls, close_pc,
              close_log, closes>>
sessVars == <<auto_reconnect, stop_flag, connected, ping_task, cur_conn,
              reconnect_task, task_pc, task_conn, client_close_pc,
              client_close_log, client_closes>>
folderVars == <<folder_pc, folder_user, folder_path, folder_results, folder_r,
                folder_f, folder_calls, tasks>>
authVars == <<lock_locked, lock_waiters, auth_pc, auth_out, auth_wait, auth_missed>>
searchVars == <<inbox, rx, rx_pc, listeners, sub_kind, disp_rest, disp_log,
                log_count, search_pc, search_out, search_query, stop_left,
                remaining, queue, yielded>>
vars == <<codecVars, dispVars, dlVars, connVars, sessVars, authVars, searchVars,
          send_log, folderVars>>

(***************************************************************************)
(* Helpers                                                                 *)
(***************************************************************************)
Min(a, b) == IF a < b THEN a ELSE b

\* Python's s[a:b] for 0 <= a: indices are clipped to the length of s.
Slice(s, a, b) == SubSeq(s, a + 1, Min(b, Len(s)))

RECURSIVE Flatten(_)
Flatten(ss) == IF ss = <<>> THEN <<>> ELSE Head(ss) \o Flatten(Tail(ss))

RECURSIVE SeqsUpTo(_, _)
SeqsUpTo(S, n) ==
  IF n = 0 THEN {<<>>}
  ELSE LET shorter == SeqsUpTo(S, n - 1)
       IN shorter \cup {Append(s, x) : s \in {t \in shorter : Len(t) = n - 1}, x \in S}

RECURSIVE SelectIds(_, _)
SelectIds(s, S) ==
  IF s = <<>> THEN <<>>
  ELSE IF Head(s) \in S THEN <<Head(s)>> \o SelectIds(Tail(s), S)
       ELSE SelectIds(Tail(s), S)

Range(s) == {s[i] : i \in 1..Len(s)}

(***************************************************************************)
(* Frame codec: protocol.py                                                *)
(***************************************************************************)
\* one-byte type codes and payload byte values the peer draws from
CodecCodes == {MSG_SEARCH_RESULT, 255}
PayloadBytes == {0, 255}
Payloads == SeqsUpTo(PayloadBytes, MaxPayload)

\* struct.pack("!I", n): 4 bytes, big-endian
pack_u32(n) ==
  <<(n \div 16777216) % 256, (n \div 65536) % 256, (n \div 256) % 256, n % 256>>

\* struct.unpack_from("!I", b, 0)
unpack_u32(b) == b[1] * 16777216 + b[2] * 65536 + b[3] * 256 + b[4]

pack_message_short(code, payload) ==
  pack_u32(Len(payload)) \o <<code % 256>> \o payload

pack_message(code, payload) ==
  pack_u32(1 + Len(payload)) \o <<code % 256>> \o payload

\* ok = FALSE stands for the ValueError("Frame too short")
parse_message(raw) ==
  IF Len(raw) < 5 THEN [ok |-> FALSE, code |-> 0, payload |-> <<>>]
  ELSE [ok |-> TRUE, code |-> raw[5],
        payload |-> Slice(raw, 5, 5 + (unpack_u32(raw) - 1))]

\* iter_frames with the completeness test written against the payload length
\* alone (the 4 header bytes forgotten).
RECURSIVE iter_frames_early(_)
iter_frames_early(buffer) ==
  IF Len(buffer) < 4 THEN [frames |-> <<>>, rest |-> buffer]
  ELSE LET length == unpack_u32(buffer)
       IN IF Len(buffer) < length THEN [frames |-> <<>>, rest |-> buffer]
          ELSE LET more == iter_frames_early(Slice(buffer, 4 + length, Len(buffer)))
               IN [frames |-> <<Slice(buffer, 0, 4 + length)>> \o more.frames,
                   rest |-> more.rest]

\* iter_frames run to exhaustion on buffer: the frames it yields, in order, and
\* what it leaves in the (mutated in place) buffer.
RECURSIVE iter_frames(_)
iter_frames(buffer) ==
  IF Len(buffer) < 4 THEN [frames |-> <<>>, rest |-> buffer]
  ELSE LET length == unpack_u32(buffer)
       IN IF Len(buffer) < 4 + length THEN [frames |-> <<>>, rest |-> buffer]
          ELSE LET more == iter_frames(Slice(buffer, 4 + length, Len(buffer)))
               IN [frames |-> <<Slice(buffer, 0, 4 + length)>> \o more.frames,
                   rest |-> more.rest]

\* the messages of the leading frames that parse, and whether all parsed
RECURSIVE ParseAll(_)
ParseAll(fs) ==
  IF fs = <<>> THEN [msgs |-> <<>>, ok |-> TRUE, taken |-> 0]
  ELSE LET m == parse_message(Head(fs))
       IN IF ~m.ok THEN [msgs |-> <<>>, ok |-> FALSE, taken |-> 1]
          ELSE LET more == ParseAll(Tail(fs))
               IN [msgs |-> <<[code |-> m.code, payload |-> m.payload]>> \o more.msgs,
                   ok |-> more.ok, taken |-> 1 + more.taken]

CodecInit ==
  /\ sent = <<>>
  /\ stream = <<>>
  /\ pos = 0
  /\ recv_buffer = <<>>
  /\ frames = <<>>
  /\ msgs = <<>>
  /\ codec_pc = "reading"

\* the peer encodes one message and writes it to the socket
peer_send(code, payload) ==
  /\ Len(sent) < MaxFrames
  /\ sent' = Append(sent, [code |-> code, payload |-> payload])
  /\ stream' = stream \o pack_message(code, payload)
  /\ UNCHANGED <<pos, recv_buffer, frames, msgs, codec_pc>>

\* one iteration of _recv_loop's while: reader.read returns n bytes, they are
\* appended to the buffer, and every frame iter_frames yields is parsed and
\* handed to on_message; a parse error ends the loop.
recv_chunk(n) ==
  /\ codec_pc = "reading"
  /\ n >= 1
  /\ pos + n <= Len(stream)
  /\ LET chunk == SubSeq(stream, pos + 1, pos + n)
         got == iter_frames(recv_buffer \o chunk)
         parsed == ParseAll(got.frames)
     IN /\ pos' = pos + n
        /\ frames' = frames \o SubSeq(got.frames, 1, parsed.taken)
        /\ msgs' = msgs \o parsed.msgs
        /\ codec_pc' = IF parsed.ok THEN "reading" ELSE "failed"
        \* a generator abandoned by the exception leaves the later frames in
        \* the buffer
        /\ recv_buffer' =
             Flatten(SubSeq(got.frames, parsed.taken + 1, Len(got.frames))) \o got.rest
  /\ UNCHANGED <<sent, stream>>

CodecNext ==
  \/ \E c \in CodecCodes, p \in Payloads : peer_send(c, p)
  \/ \E n \in 1..(4 + 1 + MaxPayload) * MaxFrames : recv_chunk(n)

(***************************************************************************)
(* Dispatcher: SoulseekClient._dispatch_message / _wait_for_message        *)
(***************************************************************************)
Waits == 1..MaxWaits
Codes == {MSG_LOGIN_OK, MSG_LOGIN_ERROR, MSG_SEARCH_RESULT}
\* predicates callers wait with; auth.py waits for a code in (OK, ERROR)
Preds == {{MSG_LOGIN_OK, MSG_LOGIN_ERROR}, {MSG_LOGIN_OK}, {MSG_SEARCH_RESULT}}

DispInit ==
  /\ message_waiters = <<>>
  /\ wait_pred = [w \in Waits |-> {}]
  /\ fut = [w \in Waits |-> "none"]
  /\ fut_result = [w \in Waits |-> 0]
  /\ wait_pc = [w \in Waits |-> "idle"]

\* _wait_for_message up to its await: create the future and register the wait
wait_for_message(w, pred) ==
  /\ wait_pc[w] = "idle"
  /\ \A v \in Waits : v < w => wait_pc[v] # "idle"
  /\ fut' = [fut EXCEPT ![w] = "pending"]
  /\ wait_pred' = [wait_pred EXCEPT ![w] = pred]
  /\ message_waiters' = Append(message_waiters, w)
  /\ wait_pc' = [wait_pc EXCEPT ![w] = "blocked"]
  /\ UNCHANGED fut_result

\* the waits the loop of _dispatch_message fulfils for msg: the loop runs over
\* a snapshot of the list and has no break, so it is every wait whose future
\* is not done and whose predicate accepts msg.
Fulfilled(msg) ==
  {w \in Range(message_waiters) : fut[w] = "pending" /\ msg \in wait_pred[w]}

\* _dispatch_message, lines 187-190 (no await inside the loop)
dispatch_message(msg) ==
  /\ message_waiters # <<>>
  /\ fut' = [w \in Waits |-> IF w \in Fulfilled(msg) THEN "result" ELSE fut[w]]
  /\ fut_result' = [w \in Waits |-> IF w \in Fulfilled(msg) THEN msg ELSE fut_result[w]]
  /\ message_waiters' = SelectIds(message_waiters, Waits \ Fulfilled(msg))
  /\ UNCHANGED <<wait_pred, wait_pc>>

\* the timeout of asyncio.wait_for expires: the future is cancelled
wait_timeout(w) ==
  /\ wait_pc[w] = "blocked"
  /\ fut[w] = "pending"
  /\ fut' = [fut EXCEPT ![w] = "cancelled"]
  /\ UNCHANGED <<message_waiters, wait_pred, fut_result, wait_pc>>

\* the caller resumes without the finally block of lines 226-231
wait_resume_leaky(w) ==
  /\ wait_pc[w] = "blocked"
  /\ fut[w] \in {"result", "cancelled"}
  /\ wait_pc' = [wait_pc EXCEPT ![w] = IF fut[w] = "result" THEN "returned" ELSE "timed_out"]
  /\ UNCHANGED <<message_waiters, wait_pred, fut, fut_result>>

\* the caller resumes: the finally block drops the wait from the list, then
\* the message is returned or the timeout error raised
wait_resume(w) ==
  /\ wait_pc[w] = "blocked"
  /\ fut[w] \in {"result", "cancelled"}
  /\ message_waiters' = SelectIds(message_waiters, Waits \ {w})
  /\ wait_pc' = [wait_pc EXCEPT ![w] = IF fut[w] = "result" THEN "returned" ELSE "timed_out"]
  /\ UNCHANGED <<wait_pred, fut, fut_result>>

\* the caller is cancelled while blocked: wait_for cancels the future, the
\* finally block drops the wait from the list, CancelledError propagates
wait_cancel(w) ==
  /\ wait_pc[w] = "blocked"
  /\ fut' = [fut EXCEPT ![w] = IF @ = "pending" THEN "cancelled" ELSE @]
  /\ message_waiters' = SelectIds(message_waiters, Waits \ {w})
  /\ wait_pc' = [wait_pc EXCEPT ![w] = "cancelled"]
  /\ UNCHANGED <<wait_pred, fut_result>>

DispNext ==
  \/ \E w \in Waits, p \in Preds : wait_for_message(w, p)
  \/ \E m \in Codes : dispatch_message(m)
  \/ \E w \in Waits : wait_timeout(w)
  \/ \E w \in Waits : wait_resume(w)
  \/ \E w \in Waits : wait_cancel(w)


(***************************************************************************)
(* Download manager: download.py                                           *)
(***************************************************************************)
\* the handles of two download_file calls, enough for one transfer to run
\* beside another
Transfers == {1, 2}
\* an id no handle was ever registered under
UnknownId == 0
ChunkSizes == {1, 2}
Terminal == {"completed", "failed", "cancelled"}
TaskDone == {"done_ok", "done_error", "done_cancelled"}

Note(name, t, st) == [name |-> name, bytes |-> bytes_received[t], status |-> st]
Emit(t, n) == notifications' = [notifications EXCEPT ![t] = Append(@, n)]

DlInit ==
  /\ active = {}
  /\ status = [t \in Transfers |-> "none"]
  /\ bytes_received = [t \in Transfers |-> 0]
  /\ error = [t \in Transfers |-> FALSE]
  /\ local_bytes = [t \in Transfers |-> 0]
  /\ chunks = [t \in Transfers |-> <<>>]
  /\ writer = [t \in Transfers |-> "none"]
  /\ notifications = [t \in Transfers |-> <<>>]
  /\ dl_pc = [t \in Transfers |-> "idle"]
  /\ run_pc = [t \in Transfers |-> "none"]
  /\ must_cancel = [t \in Transfers |-> FALSE]
  /\ cancels = 0
  /\ cancel_from = [t \in Transfers |-> "none"]

\* download_file, lines 37-46: the handle is created queued, registered, and
\* download_started is emitted
download_file(t) ==
  /\ dl_pc[t] = "idle"
  /\ \A u \in Transfers : u < t => dl_pc[u] # "idle"
  /\ status' = [status EXCEPT ![t] = "queued"]
  /\ active' = active \cup {t}
  /\ Emit(t, Note("download_started", t, "queued"))
  /\ dl_pc' = [dl_pc EXCEPT ![t] = "emit_started"]
  /\ UNCHANGED <<bytes_received, error, local_bytes, chunks, writer, run_pc,
                 must_cancel, cancels, cancel_from>>

\* download_file, lines 116-117: the task is created and the handle returned
download_file_return(t) ==
  /\ dl_pc[t] = "emit_started"
  /\ dl_pc' = [dl_pc EXCEPT ![t] = "returned"]
  /\ run_pc' = [run_pc EXCEPT ![t] = "start"]
  /\ UNCHANGED <<active, status, bytes_received, error, local_bytes, chunks, writer,
                 notifications, must_cancel, cancels, cancel_from>>

Runs(t, at) == run_pc[t] \in at /\ ~must_cancel[t]

\* _run, lines 52-55: up to the await of open_connection
run_start(t) ==
  /\ Runs(t, {"start"})
  /\ status' = [status EXCEPT ![t] = "connecting"]
  /\ run_pc' = [run_pc EXCEPT ![t] = "connecting"]
  /\ UNCHANGED <<active, bytes_received, error, local_bytes, chunks, writer,
                 notifications, dl_pc, must_cancel, cancels, cancel_from>>

\* lines 55-60: connected, the request is written, await drain
run_connect_ok(t) ==
  /\ Runs(t, {"connecting"})
  /\ writer' = [writer EXCEPT ![t] = "open"]
  /\ run_pc' = [run_pc EXCEPT ![t] = "drain"]
  /\ UNCHANGED <<active, status, bytes_received, error, local_bytes, chunks,
                 notifications, dl_pc, must_cancel, cancels, cancel_from>>

\* the except handler without lines 103-113: no error recorded, nothing
\* emitted
FailSilent(t) ==
  /\ status' = [status EXCEPT ![t] = "failed"]
  /\ run_pc' = [run_pc EXCEPT ![t] = "emit_failed"]
  /\ UNCHANGED <<error, notifications>>

\* lines 101-113: the except handler, up to the await of emit
Fail(t) ==
  /\ status' = [status EXCEPT ![t] = "failed"]
  /\ error' = [error EXCEPT ![t] = TRUE]
  /\ Emit(t, Note("download_failed", t, "failed"))
  /\ run_pc' = [run_pc EXCEPT ![t] = "emit_failed"]

\* open_connection raises: no writer exists, the outer handler runs
run_connect_fail(t) ==
  /\ Runs(t, {"connecting"})
  /\ Fail(t)
  /\ UNCHANGED <<active, bytes_received, local_bytes, chunks, writer, dl_pc,
                 must_cancel, cancels, cancel_from>>

\* lines 64-68: drain returned, status in_progress, the file is opened
\* (truncated), await the first read
run_drain_ok(t) ==
  /\ Runs(t, {"drain"})
  /\ status' = [status EXCEPT ![t] = "in_progress"]
  /\ local_bytes' = [local_bytes EXCEPT ![t] = 0]
  /\ chunks' = [chunks EXCEPT ![t] = <<>>]
  /\ run_pc' = [run_pc EXCEPT ![t] = "read"]
  /\ UNCHANGED <<active, bytes_received, error, writer, notifications, dl_pc,
                 must_cancel, cancels, cancel_from>>

\* drain raises (opened = FALSE) or open(destination) raises (opened = TRUE,
\* after the status became in_progress): the inner finally closes the writer
\* and awaits wait_closed
run_drain_fail(t, opened) ==
  /\ Runs(t, {"drain"})
  /\ status' = [status EXCEPT ![t] = IF opened THEN "in_progress" ELSE @]
  /\ writer' = [writer EXCEPT ![t] = "closed"]
  /\ run_pc' = [run_pc EXCEPT ![t] = "closing_err"]
  /\ UNCHANGED <<active, bytes_received, error, local_bytes, chunks, notifications,
                 dl_pc, must_cancel, cancels, cancel_from>>

\* a chunk is read, with the handle given the size of the chunk instead of
\* the running total
run_read_chunk_last(t, n) ==
  /\ Runs(t, {"read"})
  /\ Len(chunks[t]) < MaxChunks
  /\ chunks' = [chunks EXCEPT ![t] = Append(@, n)]
  /\ local_bytes' = [local_bytes EXCEPT ![t] = @ + n]
  /\ bytes_received' = [bytes_received EXCEPT ![t] = n]
  /\ Emit(t, [name |-> "download_progress", bytes |-> n, status |-> status[t]])
  /\ run_pc' = [run_pc EXCEPT ![t] = "emit_progress"]
  /\ UNCHANGED <<active, status, error, writer, dl_pc, must_cancel, cancels,
                 cancel_from>>

\* lines 68-85: a chunk of n bytes is read, written, counted, and
\* download_progress is emitted
run_read_chunk(t, n) ==
  /\ Runs(t, {"read"})
  /\ Len(chunks[t]) < MaxChunks
  /\ chunks' = [chunks EXCEPT ![t] = Append(@, n)]
  /\ local_bytes' = [local_bytes EXCEPT ![t] = @ + n]
  /\ bytes_received' = [bytes_received EXCEPT ![t] = local_bytes[t] + n]
  /\ Emit(t, [name |-> "download_progress", bytes |-> local_bytes[t] + n,
              status |-> status[t]])
  /\ run_pc' = [run_pc EXCEPT ![t] = "emit_progress"]
  /\ UNCHANGED <<active, status, error, writer, dl_pc, must_cancel, cancels,
                 cancel_from>>

\* emit(download_progress) returned: back to the read
run_progress_return(t) ==
  /\ Runs(t, {"emit_progress"})
  /\ run_pc' = [run_pc EXCEPT ![t] = "read"]
  /\ UNCHANGED <<active, status, bytes_received, error, local_bytes, chunks, writer,
                 notifications, dl_pc, must_cancel, cancels, cancel_from>>

\* reader.read or f.write raises: the inner finally closes the writer
run_read_fail(t) ==
  /\ Runs(t, {"read"})
  /\ writer' = [writer EXCEPT ![t] = "closed"]
  /\ run_pc' = [run_pc EXCEPT ![t] = "closing_err"]
  /\ UNCHANGED <<active, status, bytes_received, error, local_bytes, chunks,
                 notifications, dl_pc, must_cancel, cancels, cancel_from>>

\* lines 69-70, 87-96: zero-length read, status completed, download_completed
run_read_eof(t) ==
  /\ Runs(t, {"read"})
  /\ status' = [status EXCEPT ![t] = "completed"]
  /\ Emit(t, Note("download_completed", t, "completed"))
  /\ run_pc' = [run_pc EXCEPT ![t] = "emit_completed"]
  /\ UNCHANGED <<active, bytes_received, error, local_bytes, chunks, writer, dl_pc,
                 must_cancel, cancels, cancel_from>>

\* lines 97-100: emit(download_completed) returned, the finally closes the
\* writer and awaits wait_closed
run_completed_return(t) ==
  /\ Runs(t, {"emit_completed"})
  /\ writer' = [writer EXCEPT ![t] = "closed"]
  /\ run_pc' = [run_pc EXCEPT ![t] = "closing_ok"]
  /\ UNCHANGED <<active, status, bytes_received, error, local_bytes, chunks,
                 notifications, dl_pc, must_cancel, cancels, cancel_from>>

\* wait_closed returned: the task ends, or the pending exception reaches the
\* outer handler
run_closed(t) ==
  /\ Runs(t, {"closing_ok", "closing_err"})
  /\ IF run_pc[t] = "closing_ok"
       THEN /\ run_pc' = [run_pc EXCEPT ![t] = "done_ok"]
            /\ UNCHANGED <<status, error, notifications>>
       ELSE Fail(t)
  /\ UNCHANGED <<active, bytes_received, local_bytes, chunks, writer, dl_pc,
                 must_cancel, cancels, cancel_from>>

\* line 114: emit(download_failed) returned, DownloadError is raised
run_failed_return(t) ==
  /\ Runs(t, {"emit_failed"})
  /\ run_pc' = [run_pc EXCEPT ![t] = "done_error"]
  /\ UNCHANGED <<active, status, bytes_received, error, local_bytes, chunks, writer,
                 notifications, dl_pc, must_cancel, cancels, cancel_from>>

\* the writer was closed after a CancelledError and wait_closed returned
run_cancel_closed(t) ==
  /\ Runs(t, {"closing_cancel"})
  /\ run_pc' = [run_pc EXCEPT ![t] = "done_cancelled"]
  /\ UNCHANGED <<active, status, bytes_received, error, local_bytes, chunks, writer,
                 notifications, dl_pc, must_cancel, cancels, cancel_from>>

\* where _run goes when its pending await raises CancelledError: inside the
\* inner try the finally closes the writer and awaits wait_closed; elsewhere
\* the error leaves the coroutine.
AfterCancel(at) ==
  IF at \in {"drain", "read", "emit_progress", "emit_completed"}
    THEN "closing_cancel" ELSE "done_cancelled"

\* the same delivery with "except Exception" catching the CancelledError, as
\* under the exception hierarchy before Python 3.8
run_cancelled_caught(t) ==
  /\ run_pc[t] \notin TaskDone \cup {"none"}
  /\ must_cancel[t]
  /\ must_cancel' = [must_cancel EXCEPT ![t] = FALSE]
  /\ IF run_pc[t] = "start"
       THEN /\ run_pc' = [run_pc EXCEPT ![t] = "done_cancelled"]
            /\ UNCHANGED <<status, error, notifications, writer>>
       ELSE /\ Fail(t)
            /\ writer' = [writer EXCEPT ![t] = IF @ = "open" THEN "closed" ELSE @]
  /\ UNCHANGED <<active, bytes_received, local_bytes, chunks, dl_pc, cancels,
                 cancel_from>>

\* the cancelled task runs next: CancelledError is raised at its await; no
\* handler of _run catches it
run_cancelled(t) ==
  /\ run_pc[t] \notin TaskDone \cup {"none"}
  /\ must_cancel[t]
  /\ must_cancel' = [must_cancel EXCEPT ![t] = FALSE]
  /\ run_pc' = [run_pc EXCEPT ![t] = AfterCancel(@)]
  /\ writer' = [writer EXCEPT ![t] =
                  IF AfterCancel(run_pc[t]) = "closing_cancel" THEN "closed" ELSE @]
  /\ UNCHANGED <<active, status, bytes_received, error, local_bytes, chunks,
                 notifications, dl_pc, cancels, cancel_from>>

\* DownloadManager.cancel, lines 153-169
cancel(id) ==
  /\ cancels < MaxCancels
  /\ cancels' = cancels + 1
  /\ IF id \in active /\ run_pc[id] \notin TaskDone \cup {"none"}
       THEN /\ must_cancel' = [must_cancel EXCEPT ![id] = TRUE]
            /\ status' = [status EXCEPT ![id] = "cancelled"]
            /\ Emit(id, Note("download_cancelled", id, "cancelled"))
            /\ cancel_from' = [cancel_from EXCEPT ![id] =
                                 IF @ = "none" THEN status[id] ELSE @]
       ELSE UNCHANGED <<must_cancel, status, notifications, cancel_from>>
  /\ UNCHANGED <<active, bytes_received, error, local_bytes, chunks, writer, dl_pc,
                 run_pc>>

DlNext ==
  \/ \E t \in Transfers : download_file(t)
  \/ \E t \in Transfers : download_file_return(t)
  \/ \E t \in Transfers : run_start(t)
  \/ \E t \in Transfers : run_connect_ok(t)
  \/ \E t \in Transfers : run_connect_fail(t)
  \/ \E t \in Transfers : run_drain_ok(t)
  \/ \E t \in Transfers, opened \in BOOLEAN : run_drain_fail(t, opened)
  \/ \E t \in Transfers, n \in ChunkSizes : run_read_chunk(t, n)
  \/ \E t \in Transfers : run_progress_return(t)
  \/ \E t \in Transfers : run_read_fail(t)
  \/ \E t \in Transfers : run_read_eof(t)
  \/ \E t \in Transfers : run_completed_return(t)
  \/ \E t \in Transfers : run_closed(t)
  \/ \E t \in Transfers : run_failed_return(t)
  \/ \E t \in Transfers : run_cancel_closed(t)
  \/ \E t \in Transfers : run_cancelled(t)
  \/ \E id \in Transfers \cup {UnknownId} : cancel(id)


(***************************************************************************)
(* DownloadManager.download_folder: download.py 119-151                    *)
(***************************************************************************)
Slash == 47
FolderUsers == {"A", "B"}
\* folder names "d" and "d/"
Folders == {<<100>>, <<100, Slash>>}
\* the file lists of a result: file names "x" and "y"
FileLists == {<<>>, <<<<120>>>>, <<<<120>>, <<121>>>>}
\* SearchResult (types.py 17-24), the fields download_folder reads
SearchResults == [user : FolderUsers, folder : Folders, files : FileLists]
\* the argument destination_dir, "o"
DestinationDir == <<111>>

\* str.replace("//", "/"): occurrences are replaced from the left, without
\* overlap
RECURSIVE replace_slashes(_)
replace_slashes(str) ==
  IF Len(str) < 2 THEN str
  ELSE IF str[1] = Slash /\ str[2] = Slash
         THEN <<Slash>> \o replace_slashes(SubSeq(str, 3, Len(str)))
         ELSE <<str[1]>> \o replace_slashes(Tail(str))

\* line 140
remote_path(folder, filename) == replace_slashes(folder \o <<Slash>> \o filename)
\* line 141
dest(filename) == DestinationDir \o <<Slash>> \o filename

FolderInit ==
  /\ folder_pc = "idle"
  /\ folder_user = "A"
  /\ folder_path = <<>>
  /\ folder_results = <<>>
  /\ folder_r = 0
  /\ folder_f = 0
  /\ folder_calls = <<>>
  /\ tasks = <<>>

\* the loops of lines 134-139 without the test of line 137: the next file
\* record of a result of the user, whatever its folder
RECURSIVE NextFileAnyFolder(_, _)
NextFileAnyFolder(r, f) ==
  IF r > Len(folder_results) THEN <<0, 0>>
  ELSE IF r = 0 THEN NextFileAnyFolder(1, 0)
  ELSE IF folder_results[r].user # folder_user THEN NextFileAnyFolder(r + 1, 0)
  ELSE IF f < Len(folder_results[r].files) THEN <<r, f + 1>>
  ELSE NextFileAnyFolder(r + 1, 0)

\* the loops of lines 134-139, resumed after file f of result r: the next
\* file record for which download_file is called, <<0, 0>> when the loops end
RECURSIVE NextFile(_, _)
NextFile(r, f) ==
  IF r > Len(folder_results) THEN <<0, 0>>
  ELSE IF r = 0 THEN NextFile(1, 0)
  ELSE IF folder_results[r].user # folder_user THEN NextFile(r + 1, 0)
  ELSE IF folder_results[r].folder # folder_path THEN NextFile(r + 1, 0)
  ELSE IF f < Len(folder_results[r].files) THEN <<r, f + 1>>
  ELSE NextFile(r + 1, 0)

\* lines 119-133: download_folder is called
download_folder(user, path, results) ==
  /\ folder_pc = "idle"
  /\ folder_user' = user
  /\ folder_path' = path
  /\ folder_results' = results
  /\ folder_pc' = "loop"
  /\ UNCHANGED <<folder_r, folder_f, folder_calls, tasks>>
  /\ UNCHANGED dlVars

\* lines 134-149: the loops advance to the next file record of a matching
\* result and download_file is called for it, which creates the handle and
\* suspends in the emit of download_started
folder_download_file(t) ==
  /\ folder_pc = "loop"
  /\ NextFile(folder_r, folder_f) # <<0, 0>>
  /\ LET nxt == NextFile(folder_r, folder_f)
         file == folder_results[nxt[1]].files[nxt[2]]
     IN /\ folder_r' = nxt[1]
        /\ folder_f' = nxt[2]
        /\ folder_calls' = Append(folder_calls,
             [handle |-> t, user |-> folder_user,
              remote_path |-> remote_path(folder_results[nxt[1]].folder, file),
              destination |-> dest(file), r |-> nxt[1], f |-> nxt[2]])
  /\ download_file(t)
  /\ folder_pc' = "in_download_file"
  /\ UNCHANGED <<folder_user, folder_path, folder_results, tasks>>

\* lines 142-150: download_file returns the handle, which is appended to tasks
folder_append(t) ==
  /\ folder_pc = "in_download_file"
  /\ download_file_return(t)
  /\ tasks' = Append(tasks, t)
  /\ folder_pc' = "loop"
  /\ UNCHANGED <<folder_user, folder_path, folder_results, folder_r, folder_f,
                 folder_calls>>

\* lines 134-151: the loops end and tasks is returned
folder_return ==
  /\ folder_pc = "loop"
  /\ NextFile(folder_r, folder_f) = <<0, 0>>
  /\ folder_pc' = "returned"
  /\ UNCHANGED <<folder_user, folder_path, folder_results, folder_r, folder_f,
                 folder_calls, tasks>>
  /\ UNCHANGED dlVars

FolderNext ==
  \/ /\ folder_pc = "idle"
     /\ \E user \in FolderUsers, path \in Folders,
           results \in SeqsUpTo(SearchResults, MaxFolderResults) :
          download_folder(user, path, results)
  \/ \E t \in Transfers : folder_download_file(t)
  \/ \E t \in Transfers : folder_append(t)
  \/ folder_return


(***************************************************************************)
(* ServerConnection: connection.py                                         *)
(***************************************************************************)
\* the user's connect() and every _reconnect task create one each
Conns == 1..(MaxReconnects + 1)
\* positions at which the receive task is suspended
RecvAlive == {"reading", "in_message", "in_disconnect", "in_disconnect_c"}

ConnInit ==
  /\ sock = [c \in Conns |-> "none"]
  /\ recv_pc = [c \in Conns |-> "none"]
  /\ recv_must_cancel = [c \in Conns |-> FALSE]
  /\ closed_ev = [c \in Conns |-> FALSE]
  /\ disc_calls = [c \in Conns |-> <<>>]
  /\ close_pc = [c \in Conns |-> "idle"]
  /\ close_log = [c \in Conns |-> <<>>]
  /\ closes = [c \in Conns |-> 0]
  /\ send_log = [c \in Conns |-> <<>>]

\* _on_disconnect(arg) is called
CallOnDisconnect(c, arg) == disc_calls' = [disc_calls EXCEPT ![c] = Append(@, arg)]

\* connect, lines 26-30: the socket is open and the receive task created. The
\* task's first step is scheduled ahead of whatever resumes its creator, so
\* it is taken to be at its first read from here on.
sc_connect_ok(c) ==
  /\ sock[c] = "none"
  /\ recv_pc[c] = "none"
  /\ sock' = [sock EXCEPT ![c] = "open"]
  /\ recv_pc' = [recv_pc EXCEPT ![c] = "reading"]
  /\ UNCHANGED <<recv_must_cancel, closed_ev, disc_calls, close_pc, close_log, closes>>

RecvRuns(c, at) == recv_pc[c] \in at /\ ~recv_must_cancel[c]

\* _recv_loop, lines 36-42: a read returned bytes holding a frame, the message
\* is handed to on_message
sc_recv_message(c) ==
  /\ RecvRuns(c, {"reading"})
  /\ sock[c] = "open"
  /\ recv_pc' = [recv_pc EXCEPT ![c] = "in_message"]
  /\ UNCHANGED <<sock, recv_must_cancel, closed_ev, disc_calls, close_pc, close_log,
                 closes>>

\* on_message returned: next frame or next read
sc_recv_message_return(c) ==
  /\ RecvRuns(c, {"in_message"})
  /\ recv_pc' = [recv_pc EXCEPT ![c] = "reading"]
  /\ UNCHANGED <<sock, recv_must_cancel, closed_ev, disc_calls, close_pc, close_log,
                 closes>>

\* lines 37-38, 43-46: a zero-length read, an I/O error, a parse error or an
\* error of on_message; the handler keeps it and the finally block calls
\* _on_disconnect(exc)
sc_recv_fail(c) ==
  /\ RecvRuns(c, {"reading", "in_message"})
  /\ CallOnDisconnect(c, "error")
  /\ recv_pc' = [recv_pc EXCEPT ![c] = "in_disconnect"]
  /\ UNCHANGED <<sock, recv_must_cancel, closed_ev, close_pc, close_log, closes>>

\* lines 46-47: _on_disconnect returned, _closed is set and the task ends:
\* normally, or cancelled when the finally block ran for a CancelledError
sc_recv_disconnect_return(c) ==
  /\ RecvRuns(c, {"in_disconnect", "in_disconnect_c"})
  /\ closed_ev' = [closed_ev EXCEPT ![c] = TRUE]
  /\ recv_pc' = [recv_pc EXCEPT ![c] = IF @ = "in_disconnect" THEN "done" ELSE "cancelled"]
  /\ UNCHANGED <<sock, recv_must_cancel, disc_calls, close_pc, close_log, closes>>

\* the cancelled task runs next. In the loop, CancelledError passes the
\* "except Exception" and the finally block calls _on_disconnect(None); inside
\* the finally block it aborts the pending _on_disconnect and the task ends.
sc_recv_cancelled(c) ==
  /\ recv_pc[c] \in RecvAlive
  /\ recv_must_cancel[c]
  /\ recv_must_cancel' = [recv_must_cancel EXCEPT ![c] = FALSE]
  /\ IF recv_pc[c] \in {"reading", "in_message"}
       THEN /\ CallOnDisconnect(c, "none")
            /\ recv_pc' = [recv_pc EXCEPT ![c] = "in_disconnect_c"]
       ELSE /\ recv_pc' = [recv_pc EXCEPT ![c] = "cancelled"]
            /\ UNCHANGED disc_calls
  /\ UNCHANGED <<sock, closed_ev, close_pc, close_log, closes>>

\* close, lines 60-65, from the test of _task on: a live task is cancelled and
\* awaited; awaiting a task that ended cancelled raises CancelledError, which
\* suppress(Exception) lets through; otherwise _on_disconnect(None) is called.
CloseFromTask(c) ==
  IF recv_pc[c] \in {"none", "done"}
    THEN /\ CallOnDisconnect(c, "none")
         /\ close_pc' = [close_pc EXCEPT ![c] = "in_disconnect"]
         /\ UNCHANGED <<recv_must_cancel, close_log>>
    ELSE IF recv_pc[c] = "cancelled"
      THEN /\ close_pc' = [close_pc EXCEPT ![c] = "idle"]
           /\ close_log' = [close_log EXCEPT ![c] = Append(@, "raised")]
           /\ UNCHANGED <<recv_must_cancel, disc_calls>>
      ELSE /\ recv_must_cancel' = [recv_must_cancel EXCEPT ![c] = TRUE]
           /\ close_pc' = [close_pc EXCEPT ![c] = "await_task"]
           /\ UNCHANGED <<close_log, disc_calls>>

\* close, lines 55-59: with a writer, close it and await wait_closed
sc_close(c) ==
  /\ close_pc[c] = "idle"
  /\ closes[c] < MaxCloses
  /\ closes' = [closes EXCEPT ![c] = @ + 1]
  /\ IF sock[c] # "none"
       THEN /\ sock' = [sock EXCEPT ![c] = "closed"]
            /\ close_pc' = [close_pc EXCEPT ![c] = "wait_closed"]
            /\ UNCHANGED <<recv_must_cancel, disc_calls, close_log>>
       ELSE /\ CloseFromTask(c)
            /\ UNCHANGED sock
  /\ UNCHANGED <<recv_pc, closed_ev>>

\* wait_closed returned
sc_close_wait_closed_return(c) ==
  /\ close_pc[c] = "wait_closed"
  /\ CloseFromTask(c)
  /\ UNCHANGED <<sock, recv_pc, closed_ev, closes>>

\* the awaited task has ended
sc_close_task_done(c) ==
  /\ close_pc[c] = "await_task"
  /\ recv_pc[c] \in {"done", "cancelled"}
  /\ CloseFromTask(c)
  /\ UNCHANGED <<sock, recv_pc, closed_ev, closes>>

\* lines 66-67: _on_disconnect(None) returned, _closed is set, close returns
sc_close_disconnect_return(c) ==
  /\ close_pc[c] = "in_disconnect"
  /\ closed_ev' = [closed_ev EXCEPT ![c] = TRUE]
  /\ close_pc' = [close_pc EXCEPT ![c] = "idle"]
  /\ close_log' = [close_log EXCEPT ![c] = Append(@, "returned")]
  /\ UNCHANGED <<sock, recv_pc, recv_must_cancel, disc_calls, closes>>

\* ServerConnection objects driven directly through their public interface:
\* connect(), then close() any number of times, with an _on_disconnect
\* callback that only records its calls.
DirectConns == {1, 2}

\* send, lines 49-53: without a writer it raises ConnectionClosedError; with
\* one, closed or not, the data is written to it and drain() is awaited, which
\* returns or raises the transport's error
sc_send(c, drained) ==
  /\ Len(send_log[c]) < MaxSends
  /\ send_log' = [send_log EXCEPT ![c] =
                    Append(@, IF sock[c] = "none" THEN "not_connected"
                              ELSE IF drained THEN "written" ELSE "written_io_error")]
  /\ UNCHANGED connVars

ConnNext ==
  \/ \E c \in DirectConns : sc_connect_ok(c) /\ UNCHANGED send_log
  \/ \E c \in DirectConns : sc_recv_message(c) /\ UNCHANGED send_log
  \/ \E c \in DirectConns : sc_recv_message_return(c) /\ UNCHANGED send_log
  \/ \E c \in DirectConns : sc_recv_fail(c) /\ UNCHANGED send_log
  \/ \E c \in DirectConns : sc_recv_disconnect_return(c) /\ UNCHANGED send_log
  \/ \E c \in DirectConns : sc_recv_cancelled(c) /\ UNCHANGED send_log
  \/ \E c \in DirectConns : sock[c] # "none" /\ sc_close(c) /\ UNCHANGED send_log
  \/ \E c \in DirectConns : sc_close_wait_closed_return(c) /\ UNCHANGED send_log
  \/ \E c \in DirectConns : sc_close_task_done(c) /\ UNCHANGED send_log
  \/ \E c \in DirectConns : sc_close_disconnect_return(c) /\ UNCHANGED send_log
  \/ \E c \in DirectConns, drained \in BOOLEAN : sc_send(c, drained)

(***************************************************************************)
(* SoulseekClient session: client.py (simulate = False)                    *)
(***************************************************************************)
ReconTasks == 1..MaxReconnects
\* the user's call of connect()
User == 0
Callers == {User} \cup ReconTasks

SessInit ==
  /\ auto_reconnect = TRUE
  /\ stop_flag = FALSE
  /\ connected = FALSE
  /\ ping_task = "none"
  /\ cur_conn = 0
  /\ reconnect_task = 0
  /\ task_pc = [k \in Callers |-> "none"]
  /\ task_conn = [k \in Callers |-> 0]
  /\ client_close_pc = "idle"
  /\ client_close_log = <<>>
  /\ client_closes = 0

\* the ServerConnection object the next connect() creates
Fresh(c) == c \in Conns /\ c = Cardinality({k \in Callers : task_conn[k] # 0}) + 1
\* the task the next asyncio.create_task(self._reconnect()) creates
FreeTask(r) ==
  /\ r \in ReconTasks
  /\ task_pc[r] = "none"
  /\ \A q \in ReconTasks : q < r => task_pc[q] # "none"

\* connect, lines 76-79: a new ServerConnection replaces _conn and its
\* connect() is awaited
ConnectStart(k) ==
  \E c \in Conns :
    /\ Fresh(c)
    /\ cur_conn' = c
    /\ task_conn' = [task_conn EXCEPT ![k] = c]
    /\ task_pc' = [task_pc EXCEPT ![k] = "opening"]

\* the user calls connect()
connect_call ==
  /\ task_pc[User] = "none"
  /\ ConnectStart(User)
  /\ UNCHANGED <<auto_reconnect, stop_flag, connected, ping_task, reconnect_task,
                 client_close_pc, client_close_log, client_closes>>
  /\ UNCHANGED connVars

\* connect, lines 79-81: the connection is open, _connected is set and
\* connected is emitted
open_ok(k) ==
  /\ task_pc[k] = "opening"
  /\ sc_connect_ok(task_conn[k])
  /\ connected' = TRUE
  /\ task_pc' = [task_pc EXCEPT ![k] = "emit_connected"]
  /\ UNCHANGED <<auto_reconnect, stop_flag, ping_task, cur_conn, reconnect_task,
                 task_conn, client_close_pc, client_close_log, client_closes>>

\* ServerConnection.connect raises: the user's connect() raises; _reconnect
\* catches it and emits a log event (lines 164-165)
open_fail(k) ==
  /\ task_pc[k] = "opening"
  /\ task_pc' = [task_pc EXCEPT ![k] = IF k = User THEN "raised" ELSE "emit_log"]
  /\ UNCHANGED <<auto_reconnect, stop_flag, connected, ping_task, cur_conn,
                 reconnect_task, task_conn, client_close_pc, client_close_log,
                 client_closes>>
  /\ UNCHANGED connVars

\* _reconnect schedules a retry after every attempt, not only a failed one
RetryScheduledAlways(failed) == auto_reconnect

\* _reconnect, lines 162-167: a retry is scheduled only from the handler of a
\* failed connect(); the new task is not stored in _reconnect_task
RetryScheduled(failed) == failed /\ auto_reconnect

\* the end of a connect() call: the task ends, after scheduling a retry if
\* it is a _reconnect task that has to
CallEnds(k, failed) ==
  IF k \in ReconTasks /\ RetryScheduled(failed)
    THEN \E r \in ReconTasks :
           /\ FreeTask(r)
           /\ task_pc' = [task_pc EXCEPT ![k] = "done", ![r] = "sleeping"]
    ELSE task_pc' = [task_pc EXCEPT ![k] = "done"]

\* connect, lines 82-83: emit(connected) returned, the keep-alive task is
\* created if there is none, connect() returns
connect_return(k) ==
  /\ task_pc[k] = "emit_connected"
  /\ ping_task' = IF ping_task = "none" THEN "running" ELSE ping_task
  /\ CallEnds(k, FALSE)
  /\ UNCHANGED <<auto_reconnect, stop_flag, connected, cur_conn, reconnect_task,
                 task_conn, client_close_pc, client_close_log, client_closes>>
  /\ UNCHANGED connVars

\* _reconnect, lines 166-167: emit(log) returned
reconnect_log_return(k) ==
  /\ task_pc[k] = "emit_log"
  /\ CallEnds(k, TRUE)
  /\ UNCHANGED <<auto_reconnect, stop_flag, connected, ping_task, cur_conn,
                 reconnect_task, task_conn, client_close_pc, client_close_log,
                 client_closes>>
  /\ UNCHANGED connVars

\* _reconnect, lines 159-163: the sleep is over; stopped, it returns, else it
\* calls connect()
reconnect_wake(k) ==
  /\ k \in ReconTasks
  /\ task_pc[k] = "sleeping"
  /\ IF stop_flag
       THEN /\ task_pc' = [task_pc EXCEPT ![k] = "done"]
            /\ UNCHANGED <<cur_conn, task_conn>>
       ELSE ConnectStart(k)
  /\ UNCHANGED <<auto_reconnect, stop_flag, connected, ping_task, reconnect_task,
                 client_close_pc, client_close_log, client_closes>>
  /\ UNCHANGED connVars

\* on_disconnect, lines 71-74, after its emit(disconnected) returned
OnDisconnectTail ==
  /\ connected' = FALSE
  /\ IF /\ auto_reconnect
        /\ ~stop_flag
        /\ (reconnect_task = 0 \/ task_pc[reconnect_task] = "done")
       THEN \E r \in ReconTasks :
              /\ FreeTask(r)
              /\ task_pc' = [task_pc EXCEPT ![r] = "sleeping"]
              /\ reconnect_task' = r
       ELSE UNCHANGED <<task_pc, reconnect_task>>

\* the ServerConnection.close() that SoulseekClient.close() awaits ends, and
\* SoulseekClient.close() ends the same way
ClientCloseEnds(c) ==
  IF client_close_pc = "in_conn_close" /\ close_log'[c] # close_log[c]
    THEN /\ client_close_pc' = "idle"
         /\ client_close_log' = Append(client_close_log, close_log'[c][Len(close_log'[c])])
    ELSE UNCHANGED <<client_close_pc, client_close_log>>

\* SoulseekClient.close, lines 147-154. Awaiting the cancelled keep-alive task
\* raises CancelledError, which suppress(Exception) lets through: with a
\* keep-alive task, close() ends there.
client_close ==
  /\ client_close_pc = "idle"
  /\ client_closes < MaxClientCloses
  /\ client_closes' = client_closes + 1
  /\ stop_flag' = TRUE
  /\ IF ping_task # "none"
       THEN /\ ping_task' = "cancelled"
            /\ client_close_log' = Append(client_close_log, "raised")
            /\ UNCHANGED client_close_pc
            /\ UNCHANGED connVars
       ELSE /\ UNCHANGED ping_task
            /\ IF cur_conn # 0
                 THEN /\ sc_close(cur_conn)
                      /\ client_close_pc' = "in_conn_close"
                      /\ UNCHANGED client_close_log
                 ELSE /\ client_close_log' = Append(client_close_log, "returned")
                      /\ UNCHANGED client_close_pc
                      /\ UNCHANGED connVars
  /\ UNCHANGED <<auto_reconnect, connected, cur_conn, reconnect_task, task_pc,
                 task_conn>>

\* steps of a receive task that leave the session state alone; sc_recv_fail
\* enters on_disconnect, which emits disconnected
s_recv_message(c) == sc_recv_message(c) /\ UNCHANGED sessVars
s_recv_message_return(c) == sc_recv_message_return(c) /\ UNCHANGED sessVars
s_recv_fail(c) == sc_recv_fail(c) /\ UNCHANGED sessVars
s_recv_cancelled(c) == sc_recv_cancelled(c) /\ UNCHANGED sessVars

\* on_disconnect, called by the receive task, runs to its end
s_recv_disconnect_return(c) ==
  /\ sc_recv_disconnect_return(c)
  /\ OnDisconnectTail
  /\ UNCHANGED <<auto_reconnect, stop_flag, ping_task, cur_conn, task_conn,
                 client_close_pc, client_close_log, client_closes>>

s_close_wait_closed_return(c) ==
  /\ sc_close_wait_closed_return(c)
  /\ ClientCloseEnds(c)
  /\ UNCHANGED <<auto_reconnect, stop_flag, connected, ping_task, cur_conn,
                 reconnect_task, task_pc, task_conn, client_closes>>

s_close_task_done(c) ==
  /\ sc_close_task_done(c)
  /\ ClientCloseEnds(c)
  /\ UNCHANGED <<auto_reconnect, stop_flag, connected, ping_task, cur_conn,
                 reconnect_task, task_pc, task_conn, client_closes>>

\* on_disconnect, called by ServerConnection.close, runs to its end
s_close_disconnect_return(c) ==
  /\ sc_close_disconnect_return(c)
  /\ OnDisconnectTail
  /\ ClientCloseEnds(c)
  /\ UNCHANGED <<auto_reconnect, stop_flag, ping_task, cur_conn, task_conn,
                 client_closes>>

SessNext ==
  \/ connect_call
  \/ \E k \in Callers : open_ok(k)
  \/ \E k \in Callers : open_fail(k)
  \/ \E k \in Callers : connect_return(k)
  \/ \E k \in ReconTasks : reconnect_log_return(k)
  \/ \E k \in ReconTasks : reconnect_wake(k)
  \/ client_close
  \/ \E c \in Conns : s_recv_message(c)
  \/ \E c \in Conns : s_recv_message_return(c)
  \/ \E c \in Conns : s_recv_fail(c)
  \/ \E c \in Conns : s_recv_cancelled(c)
  \/ \E c \in Conns : s_recv_disconnect_return(c)
  \/ \E c \in Conns : s_close_wait_closed_return(c)
  \/ \E c \in Conns : s_close_task_done(c)
  \/ \E c \in Conns : s_close_disconnect_return(c)

(***************************************************************************)
(* AuthManager.authenticate: auth.py, over _send and _wait_for_message     *)
(***************************************************************************)
Auths == 1..MaxAuths
\* the predicate of line 22
LoginPred == {MSG_LOGIN_OK, MSG_LOGIN_ERROR}
\* positions inside the login sequence, lines 19-30
InLogin == {"sending", "waiting"}

AuthInit ==
  /\ lock_locked = FALSE
  /\ lock_waiters = <<>>
  /\ auth_pc = [a \in Auths |-> "none"]
  /\ auth_out = [a \in Auths |-> "none"]
  /\ auth_wait = [a \in Auths |-> 0]
  /\ auth_missed = [a \in Auths |-> FALSE]

\* asyncio.Lock._wake_up_first: the first queued caller whose future is not
\* done is woken
WakeFirst(q, pc) ==
  LET pending == {i \in DOMAIN q : pc[q[i]] = "acquiring"}
  IN IF pending = {} THEN pc
     ELSE LET i == CHOOSE j \in pending : \A k \in pending : j <= k
          IN [pc EXCEPT ![q[i]] = "woken"]

\* the body of "async with" is left and the lock is kept
ExitKeepingLock(a, out) ==
  /\ auth_pc' = [auth_pc EXCEPT ![a] = "done"]
  /\ auth_out' = [auth_out EXCEPT ![a] = out]
  /\ UNCHANGED <<lock_locked, lock_waiters>>

\* line 18, __aexit__ of "async with self._lock": whichever way the body is
\* left, the lock is released and the first queued caller woken
ExitLogin(a, out) ==
  /\ lock_locked' = FALSE
  /\ auth_pc' = WakeFirst(lock_waiters, [auth_pc EXCEPT ![a] = "done"])
  /\ auth_out' = [auth_out EXCEPT ![a] = out]
  /\ UNCHANGED lock_waiters

\* lines 17-20: authenticate is called; with the lock free and nobody queued
\* it is taken at once and the login request is sent, else the caller queues
authenticate(a) ==
  /\ auth_pc[a] = "none"
  /\ \A b \in Auths : b < a => auth_pc[b] # "none"
  /\ IF ~lock_locked /\ lock_waiters = <<>>
       THEN /\ lock_locked' = TRUE
            /\ auth_pc' = [auth_pc EXCEPT ![a] = "sending"]
            /\ UNCHANGED lock_waiters
       ELSE /\ lock_waiters' = Append(lock_waiters, a)
            /\ auth_pc' = [auth_pc EXCEPT ![a] = "acquiring"]
            /\ UNCHANGED lock_locked
  /\ UNCHANGED <<auth_out, auth_wait, auth_missed>>
  /\ UNCHANGED dispVars

\* Lock.acquire resumes in a woken caller: it leaves the queue, takes the
\* lock and sends the login request
auth_acquired(a) ==
  /\ auth_pc[a] = "woken"
  /\ lock_waiters' = SelectIds(lock_waiters, Auths \ {a})
  /\ lock_locked' = TRUE
  /\ auth_pc' = [auth_pc EXCEPT ![a] = "sending"]
  /\ UNCHANGED <<auth_out, auth_wait, auth_missed>>
  /\ UNCHANGED dispVars

\* lines 20-24: _send returned, the wait for the login reply is registered
auth_send_ok(a) ==
  /\ auth_pc[a] = "sending"
  /\ \E w \in Waits :
       /\ wait_for_message(w, LoginPred)
       /\ auth_wait' = [auth_wait EXCEPT ![a] = w]
  /\ auth_pc' = [auth_pc EXCEPT ![a] = "waiting"]
  /\ UNCHANGED <<lock_locked, lock_waiters, auth_out, auth_missed>>

\* line 20: _send raised ConnectionClosedError (client.py 182,
\* connection.py 51) or an I/O error
auth_send_fail(a) ==
  /\ auth_pc[a] = "sending"
  /\ ExitLogin(a, "connection_error")
  /\ UNCHANGED <<auth_wait, auth_missed>>
  /\ UNCHANGED dispVars

\* the exception or return value of lines 21-30 once _wait_for_message ended
LoginOutcome(w) ==
  IF fut[w] # "result" THEN "timeout_error"
  ELSE IF fut_result[w] = MSG_LOGIN_OK THEN "ok"
  ELSE IF fut_result[w] = MSG_LOGIN_ERROR THEN "authentication_error"
  ELSE "protocol_error"

\* lines 21-30: _wait_for_message returned the reply or raised
\* asyncio.TimeoutError, which authenticate does not catch
auth_resume(a) ==
  /\ auth_pc[a] = "waiting"
  /\ wait_resume(auth_wait[a])
  /\ ExitLogin(a, LoginOutcome(auth_wait[a]))
  /\ UNCHANGED <<auth_wait, auth_missed>>

\* the task calling authenticate is cancelled: while queued on the lock it
\* leaves the queue (a woken caller passes the wake-up on); inside the body
\* CancelledError leaves the "async with"
auth_cancel(a) ==
  /\ auth_pc[a] \in {"acquiring", "woken", "sending", "waiting"}
  /\ IF auth_pc[a] \in {"acquiring", "woken"}
       THEN /\ lock_waiters' = SelectIds(lock_waiters, Auths \ {a})
            /\ auth_pc' = IF auth_pc[a] = "woken" /\ ~lock_locked
                            THEN WakeFirst(lock_waiters', [auth_pc EXCEPT ![a] = "done"])
                            ELSE [auth_pc EXCEPT ![a] = "done"]
            /\ auth_out' = [auth_out EXCEPT ![a] = "cancelled"]
            /\ UNCHANGED lock_locked
            /\ UNCHANGED dispVars
       ELSE /\ ExitLogin(a, "cancelled")
            /\ IF auth_pc[a] = "waiting"
                 THEN wait_cancel(auth_wait[a])
                 ELSE UNCHANGED dispVars
  /\ UNCHANGED <<auth_wait, auth_missed>>

\* the receive loop dispatches a message while logins are under way
\* (client.py 187-190): pending waits it matches are fulfilled; a login reply
\* reaching the dispatcher while a call is still inside _send (auth.py 20,
\* connection.py 52-53: the request is written, drain has not returned)
\* finds no wait of that call
auth_dispatch(msg) ==
  /\ IF message_waiters # <<>>
       THEN dispatch_message(msg)
       ELSE UNCHANGED dispVars
  /\ auth_missed' = [a \in Auths |->
                       \/ auth_missed[a]
                       \/ auth_pc[a] = "sending" /\ msg \in LoginPred]
  /\ UNCHANGED <<lock_locked, lock_waiters, auth_pc, auth_out, auth_wait>>

\* the messages the server may send while logins are under way
AuthNext ==
  \/ \E a \in Auths : authenticate(a)
  \/ \E a \in Auths : auth_acquired(a)
  \/ \E a \in Auths : auth_send_ok(a)
  \/ \E a \in Auths : auth_send_fail(a)
  \/ \E a \in Auths : auth_resume(a)
  \/ \E a \in Auths : auth_cancel(a)
  \/ \E m \in Codes : auth_dispatch(m)
  \/ \E w \in Waits : wait_timeout(w) /\ UNCHANGED authVars

(***************************************************************************)
(* Search results: protocol.py decode_search_result, the listener part of  *)
(* _dispatch_message (client.py 192-200) and SearchManager.search          *)
(***************************************************************************)
\* struct.pack("!H", n)
pack_u16(n) == <<(n \div 256) % 256, n % 256>>

\* pack_string, lines 21-23; strings are sequences of ASCII codes, which
\* UTF-8 encodes as themselves
pack_string(str) == pack_u16(Len(str)) \o str

\* unpack_string, lines 26-35; offset counts from 0; ok = FALSE stands for
\* the ValueError
unpack_string(data, offset) ==
  IF offset + 2 > Len(data) THEN [ok |-> FALSE, s |-> <<>>, offset |-> offset]
  ELSE LET ln == data[offset + 1] * 256 + data[offset + 2]
       IN IF offset + 2 + ln > Len(data)
            THEN [ok |-> FALSE, s |-> <<>>, offset |-> offset + 2]
            ELSE [ok |-> TRUE, s |-> Slice(data, offset + 2, offset + 2 + ln),
                  offset |-> offset + 2 + ln]

\* decode_search_result, lines 104-110: the loop over the file entries
RECURSIVE decode_files(_, _, _)
decode_files(payload, offset, n) ==
  IF n = 0 THEN [ok |-> TRUE, files |-> <<>>]
  ELSE LET name == unpack_string(payload, offset)
       IN IF ~name.ok \/ name.offset + 4 > Len(payload)
            THEN [ok |-> FALSE, files |-> <<>>]
            ELSE LET size == unpack_u32(Slice(payload, name.offset, name.offset + 4))
                     more == decode_files(payload, name.offset + 4, n - 1)
                 IN [ok |-> more.ok,
                     files |-> <<[filename |-> name.s, size |-> size]>> \o more.files]

\* decode_search_result, lines 84-118; ok = FALSE stands for the ValueError
decode_search_result(payload) ==
  LET bad == [ok |-> FALSE, query |-> <<>>, files |-> <<>>]
      query == unpack_string(payload, 0)
      user == unpack_string(payload, query.offset)
      folder == unpack_string(payload, user.offset)
  IN IF ~query.ok THEN bad
     ELSE IF ~user.ok THEN bad
     ELSE IF ~folder.ok THEN bad
     ELSE IF folder.offset >= Len(payload) THEN bad
     ELSE LET fs == decode_files(payload, folder.offset + 1, payload[folder.offset + 1])
          IN IF fs.ok THEN [ok |-> TRUE, query |-> query.s, files |-> fs.files]
             ELSE bad

\* str.lower() without the case folding
lower_exact(str) == str

\* str.lower() on ASCII
lower(str) == [i \in DOMAIN str |-> IF str[i] \in 65..90 THEN str[i] + 32 ELSE str[i]]

\* the query strings "a" and "A" a search is made with, and "b"
Queries == {<<97>>, <<65>>}
OtherQuery == <<98>>

\* a search-result payload as the peer lays it out (protocol.py 89-92):
\* query, user "u", folder "", the file count, the file entries
peer_search_result(query, nfiles) ==
  pack_string(query) \o pack_string(<<117>>) \o pack_string(<<>>) \o <<nfiles>>
    \o (IF nfiles = 1 THEN pack_string(<<102>>) \o pack_u32(7) ELSE <<>>)

\* the messages the server sends; "good" and "query" record how the payload
\* was built: a result with one file for "a", a result for "b", a result cut
\* short inside its file entry, and a login reply
ServerMsgs ==
  { [code |-> MSG_SEARCH_RESULT, payload |-> peer_search_result(<<97>>, 1),
     good |-> TRUE, query |-> <<97>>],
    [code |-> MSG_SEARCH_RESULT, payload |-> peer_search_result(OtherQuery, 0),
     good |-> TRUE, query |-> OtherQuery],
    [code |-> MSG_SEARCH_RESULT,
     payload |-> Slice(peer_search_result(<<97>>, 1), 0, 10),
     good |-> FALSE, query |-> <<97>>],
    [code |-> MSG_LOGIN_OK, payload |-> <<>>, good |-> FALSE, query |-> <<>>] }

\* callbacks registered with _register_listener: the listener of the search
\* and callbacks that return, raise, or suspend before returning
SearchSub == 0
Subs == {1}
SubKinds == {"returns", "raises", "suspends"}

SearchInit ==
  /\ inbox = <<>>
  /\ rx = 0
  /\ rx_pc = "reading"
  /\ listeners = <<>>
  /\ sub_kind = [l \in Subs |-> "none"]
  /\ disp_rest = <<>>
  /\ disp_log = <<>>
  /\ log_count = 0
  /\ search_pc = "none"
  /\ search_out = "none"
  /\ search_query = <<>>
  /\ stop_left = 0
  /\ remaining = 0
  /\ queue = <<>>
  /\ yielded = <<>>

\* search.listener, lines 23-42: the result is queued when the payload
\* decodes and its query equals the requested one in lower case; a decoding
\* error is caught and printed
ListenerQueues(msg) ==
  LET decoded == decode_search_result(msg.payload)
  IN decoded.ok /\ lower(decoded.query) = lower(search_query)

\* _dispatch_message, lines 194-200, stopping at the first listener that
\* raises
RECURSIVE call_listeners_unguarded(_, _, _, _, _)
call_listeners_unguarded(rest, i, q, called, logs) ==
  IF rest = <<>>
    THEN [rest |-> <<>>, suspended |-> FALSE, queue |-> q, called |-> called, logs |-> logs]
  ELSE LET l == Head(rest)
       IN IF l = SearchSub
            THEN call_listeners_unguarded(Tail(rest), i,
                   IF ListenerQueues(inbox[i]) THEN Append(q, i) ELSE q,
                   Append(called, l), logs)
          ELSE IF sub_kind[l] = "raises"
            THEN [rest |-> <<>>, suspended |-> FALSE, queue |-> q,
                  called |-> Append(called, l), logs |-> logs]
          ELSE IF sub_kind[l] = "suspends"
            THEN [rest |-> Tail(rest), suspended |-> TRUE, queue |-> q,
                  called |-> Append(called, l), logs |-> logs]
          ELSE call_listeners_unguarded(Tail(rest), i, q, Append(called, l), logs)

\* _dispatch_message, lines 194-200: the listeners of the snapshot are called
\* in order with message i, up to the first that suspends. The listener of
\* the search never suspends (its queue is unbounded); a listener that raises
\* is reported with a log event and the loop goes on.
RECURSIVE call_listeners(_, _, _, _, _)
call_listeners(rest, i, q, called, logs) ==
  IF rest = <<>>
    THEN [rest |-> <<>>, suspended |-> FALSE, queue |-> q, called |-> called, logs |-> logs]
  ELSE LET l == Head(rest)
       IN IF l = SearchSub
            THEN call_listeners(Tail(rest), i,
                   IF ListenerQueues(inbox[i]) THEN Append(q, i) ELSE q,
                   Append(called, l), logs)
          ELSE IF sub_kind[l] = "raises"
            THEN call_listeners(Tail(rest), i, q, Append(called, l), logs + 1)
          ELSE IF sub_kind[l] = "suspends"
            THEN [rest |-> Tail(rest), suspended |-> TRUE, queue |-> q,
                  called |-> Append(called, l), logs |-> logs]
          ELSE call_listeners(Tail(rest), i, q, Append(called, l), logs)

\* the state after a run of call_listeners
Dispatched(r, log) ==
  /\ disp_rest' = r.rest
  /\ queue' = r.queue
  /\ log_count' = r.logs
  /\ disp_log' = log
  /\ rx_pc' = IF r.suspended THEN "in_message" ELSE "reading"

\* the server sends a message
server_send(msg) ==
  /\ Len(inbox) < MaxResults
  /\ inbox' = Append(inbox, msg)
  /\ UNCHANGED <<rx, rx_pc, listeners, sub_kind, disp_rest, disp_log, log_count,
                 search_pc, search_out, search_query, stop_left, remaining, queue,
                 yielded>>
  /\ UNCHANGED dispVars

\* the receive task may take the next message
RecvReadyAlways == TRUE

\* _recv_loop, connection.py 40-42: the next frame is taken only after
\* "await self._on_message(msg)" returned
RecvReady == rx_pc = "reading"

\* _recv_loop hands the next message to _dispatch_message (client.py
\* 185-200): the waiters first, then the listeners registered for its code
recv_dispatch ==
  /\ RecvReady
  /\ rx < Len(inbox)
  /\ rx' = rx + 1
  /\ IF message_waiters # <<>>
       THEN dispatch_message(inbox[rx + 1].code)
       ELSE UNCHANGED dispVars
  /\ LET snapshot == IF inbox[rx + 1].code = MSG_SEARCH_RESULT THEN listeners ELSE <<>>
         r == call_listeners(snapshot, rx + 1, queue, <<>>, log_count)
     IN Dispatched(r, Append(disp_log, [msg |-> rx + 1, subs |-> snapshot,
                                        called |-> r.called]))
  /\ UNCHANGED <<inbox, listeners, sub_kind, search_pc, search_out, search_query,
                 stop_left, remaining, yielded>>

\* the listener _dispatch_message awaits returns: the loop goes on
listener_return ==
  /\ rx_pc = "in_message"
  /\ LET n == Len(disp_log)
         r == call_listeners(disp_rest, disp_log[n].msg, queue, disp_log[n].called,
                             log_count)
     IN Dispatched(r, [disp_log EXCEPT ![n].called = r.called])
  /\ UNCHANGED <<inbox, rx, listeners, sub_kind, search_pc, search_out, search_query,
                 stop_left, remaining, yielded>>
  /\ UNCHANGED dispVars

\* _register_listener, client.py 210-211, for a callback of the given kind
register_listener(l, kind) ==
  /\ sub_kind[l] = "none"
  /\ \A k \in Subs : k < l => sub_kind[k] # "none"
  /\ sub_kind' = [sub_kind EXCEPT ![l] = kind]
  /\ listeners' = Append(listeners, l)
  /\ UNCHANGED <<inbox, rx, rx_pc, disp_rest, disp_log, log_count, search_pc,
                 search_out, search_query, stop_left, remaining, queue, yielded>>
  /\ UNCHANGED dispVars

\* _unregister_listener, client.py 213-217
unregister_listener(ls, l) == SelectSeq(ls, LAMBDA x : x # l)

\* search, lines 60-61: whichever way the body is left, the finally block
\* unregisters the listener and the generator ends
EndSearch(out) ==
  /\ search_pc' = "ended"
  /\ search_out' = out
  /\ listeners' = unregister_listener(listeners, SearchSub)

\* an iteration of the loop without the test of lines 51-52
IterateNoDeadline ==
  /\ remaining' = stop_left
  /\ search_pc' = "waiting"
  /\ UNCHANGED <<search_out, listeners>>

\* search, lines 50-54: an iteration of the loop computes "remaining"; the
\* loop is left when it is not positive, else queue.get() is awaited
Iterate ==
  /\ remaining' = stop_left
  /\ IF stop_left <= 0
       THEN EndSearch("exhausted")
       ELSE /\ search_pc' = "waiting"
            /\ UNCHANGED <<search_out, listeners>>

\* search, lines 21-46: the consumer asks for the first result; the listener
\* is registered and the search request sent
search(query, timeout) ==
  /\ search_pc = "none"
  /\ search_query' = query
  /\ stop_left' = timeout
  /\ listeners' = Append(listeners, SearchSub)
  /\ search_pc' = "sending"
  /\ UNCHANGED <<inbox, rx, rx_pc, sub_kind, disp_rest, disp_log, log_count,
                 search_out, remaining, queue, yielded>>
  /\ UNCHANGED dispVars

\* line 46: _send raised
search_send_fail ==
  /\ search_pc = "sending"
  /\ EndSearch("send_error")
  /\ UNCHANGED <<inbox, rx, rx_pc, sub_kind, disp_rest, disp_log, log_count,
                 search_query, stop_left, remaining, queue, yielded>>
  /\ UNCHANGED dispVars

\* lines 46-54: _send returned, stop = now + timeout, first iteration
search_send_ok ==
  /\ search_pc = "sending"
  /\ Iterate
  /\ UNCHANGED <<inbox, rx, rx_pc, sub_kind, disp_rest, disp_log, log_count,
                 search_query, stop_left, queue, yielded>>
  /\ UNCHANGED dispVars

\* wait_for(queue.get()) returns an item, which is yielded (lines 54-59)
search_get ==
  /\ search_pc = "waiting"
  /\ queue # <<>>
  /\ queue' = Tail(queue)
  /\ yielded' = Append(yielded, Head(queue))
  /\ search_pc' = "yielded"
  /\ UNCHANGED <<inbox, rx, rx_pc, listeners, sub_kind, disp_rest, disp_log,
                 log_count, search_out, search_query, stop_left, remaining>>
  /\ UNCHANGED dispVars

\* wait_for raises TimeoutError at the deadline (lines 55-56)
search_timeout ==
  /\ search_pc = "waiting"
  /\ stop_left = 0
  /\ EndSearch("exhausted")
  /\ UNCHANGED <<inbox, rx, rx_pc, sub_kind, disp_rest, disp_log, log_count,
                 search_query, stop_left, remaining, queue, yielded>>
  /\ UNCHANGED dispVars

\* the consumer asks for the next result: the generator resumes after the
\* yield with a new iteration
search_next ==
  /\ search_pc = "yielded"
  /\ Iterate
  /\ UNCHANGED <<inbox, rx, rx_pc, sub_kind, disp_rest, disp_log, log_count,
                 search_query, stop_left, queue, yielded>>
  /\ UNCHANGED dispVars

\* the consumer leaves its loop without closing the generator, which stays
\* suspended at the yield of line 59
search_abandon ==
  /\ search_pc = "yielded"
  /\ search_pc' = "abandoned"
  /\ UNCHANGED <<inbox, rx, rx_pc, listeners, sub_kind, disp_rest, disp_log,
                 log_count, search_out, search_query, stop_left, remaining, queue,
                 yielded>>
  /\ UNCHANGED dispVars

\* aclose(): by the consumer, or by the event loop's finalizer once an
\* abandoned generator is collected; GeneratorExit is raised at the yield
search_aclose ==
  /\ search_pc \in {"yielded", "abandoned"}
  /\ EndSearch("closed")
  /\ UNCHANGED <<inbox, rx, rx_pc, sub_kind, disp_rest, disp_log, log_count,
                 search_query, stop_left, remaining, queue, yielded>>
  /\ UNCHANGED dispVars

\* the consumer's task is cancelled while the generator awaits
search_cancel ==
  /\ search_pc \in {"sending", "waiting"}
  /\ EndSearch("cancelled")
  /\ UNCHANGED <<inbox, rx, rx_pc, sub_kind, disp_rest, disp_log, log_count,
                 search_query, stop_left, remaining, queue, yielded>>
  /\ UNCHANGED dispVars

\* the clock of the event loop advances towards the deadline
tick ==
  /\ search_pc \in {"waiting", "yielded"}
  /\ stop_left > 0
  /\ stop_left' = stop_left - 1
  /\ UNCHANGED <<inbox, rx, rx_pc, listeners, sub_kind, disp_rest, disp_log,
                 log_count, search_pc, search_out, search_query, remaining, queue,
                 yielded>>
  /\ UNCHANGED dispVars

SearchNext ==
  \/ \E msg \in ServerMsgs : server_send(msg)
  \/ recv_dispatch
  \/ listener_return
  \/ \E l \in Subs, kind \in SubKinds : register_listener(l, kind)
  \/ \E q \in Queries, t \in 0..MaxTimeout : search(q, t)
  \/ search_send_fail
  \/ search_send_ok
  \/ search_get
  \/ search_timeout
  \/ search_next
  \/ search_abandon
  \/ search_aclose
  \/ search_cancel
  \/ tick

(***************************************************************************)
(* Specifications                                                          *)
(***************************************************************************)
Init == CodecInit /\ DispInit /\ DlInit /\ ConnInit /\ SessInit /\ AuthInit
        /\ SearchInit /\ FolderInit

SpecCodec ==
  Init /\ [][CodecNext /\ UNCHANGED <<dispVars, dlVars, connVars, sessVars, authVars, searchVars, send_log, folderVars>>]_vars

SpecDispatch ==
  Init /\ [][DispNext /\ UNCHANGED <<codecVars, dlVars, connVars, sessVars, authVars, searchVars, send_log, folderVars>>]_vars

SpecDownload ==
  Init /\ [][DlNext /\ UNCHANGED <<codecVars, dispVars, connVars, sessVars, authVars, searchVars, send_log, folderVars>>]_vars

\* one call of download_folder on a manager without other transfers
SpecFolder ==
  Init /\ [][FolderNext /\ UNCHANGED <<codecVars, dispVars, connVars, sessVars, authVars, searchVars, send_log>>]_vars

SpecAuth ==
  Init /\ [][AuthNext /\ UNCHANGED <<codecVars, dlVars, connVars, sessVars, searchVars, send_log, folderVars>>]_vars

\* a search and the replies to it, without other callbacks
SearchOnlyNext ==
  \/ \E msg \in ServerMsgs : server_send(msg)
  \/ recv_dispatch
  \/ \E q \in Queries, t \in 0..MaxTimeout : search(q, t)
  \/ search_send_fail
  \/ search_send_ok
  \/ search_get
  \/ search_timeout
  \/ search_next
  \/ search_abandon
  \/ search_aclose
  \/ search_cancel
  \/ tick

\* the clock advances, timers fire when due, and a consumer that stays in its
\* loop asks for the next result
SpecSearchFair ==
  /\ Init
  /\ [][SearchOnlyNext /\ UNCHANGED <<codecVars, dlVars, connVars, sessVars, authVars, send_log, folderVars>>]_vars
  /\ WF_vars(tick /\ UNCHANGED <<codecVars, dlVars, connVars, sessVars, authVars, send_log, folderVars>>)
  /\ WF_vars(search_timeout /\ UNCHANGED <<codecVars, dlVars, connVars, sessVars, authVars, send_log, folderVars>>)
  /\ WF_vars(search_next /\ UNCHANGED <<codecVars, dlVars, connVars, sessVars, authVars, send_log, folderVars>>)

SpecSearch ==
  Init /\ [][SearchNext /\ UNCHANGED <<codecVars, dlVars, connVars, sessVars, authVars, send_log, folderVars>>]_vars

SpecConn ==
  Init /\ [][ConnNext /\ UNCHANGED <<codecVars, dispVars, dlVars, sessVars, authVars, searchVars, folderVars>>]_vars

\* the client is constructed with auto_reconnect on or off
SessionInit ==
  /\ CodecInit /\ DispInit /\ DlInit /\ ConnInit /\ AuthInit /\ SearchInit
  /\ FolderInit
  /\ auto_reconnect \in BOOLEAN
  /\ stop_flag = FALSE
  /\ connected = FALSE
  /\ ping_task = "none"
  /\ cur_conn = 0
  /\ reconnect_task = 0
  /\ task_pc = [k \in Callers |-> "none"]
  /\ task_conn = [k \in Callers |-> 0]
  /\ client_close_pc = "idle"
  /\ client_close_log = <<>>
  /\ client_closes = 0

SpecSession ==
  SessionInit /\ [][SessNext /\ UNCHANGED <<codecVars, dispVars, dlVars, authVars, searchVars, send_log, folderVars>>]_vars

Next ==
  \/ CodecNext /\ UNCHANGED <<dispVars, dlVars, connVars, sessVars, authVars, searchVars, send_log, folderVars>>
  \/ DispNext /\ UNCHANGED <<codecVars, dlVars, connVars, sessVars, authVars, searchVars, send_log, folderVars>>
  \/ DlNext /\ UNCHANGED <<codecVars, dispVars, connVars, sessVars, authVars, searchVars, send_log, folderVars>>
  \/ ConnNext /\ UNCHANGED <<codecVars, dispVars, dlVars, sessVars, authVars, searchVars, folderVars>>
  \/ SessNext /\ UNCHANGED <<codecVars, dispVars, dlVars, authVars, searchVars, send_log, folderVars>>
  \/ AuthNext /\ UNCHANGED <<codecVars, dlVars, connVars, sessVars, searchVars, send_log, folderVars>>
  \/ SearchNext /\ UNCHANGED <<codecVars, dlVars, connVars, sessVars, authVars, send_log, folderVars>>
  \/ FolderNext /\ UNCHANGED <<codecVars, dispVars, connVars, sessVars, authVars, searchVars, send_log>>

Spec == Init /\ [][Next]_vars

(***************************************************************************)
(* Claims                                                                  *)
(***************************************************************************)
\* the waits whose future is pending and whose predicate accepts msg, in
\* registration order
MatchingWaits(msg) == SelectIds(message_waiters, Fulfilled(msg))

\* C1: when _dispatch_message handles one message that two or more pending
\* waits match, exactly one wait, the earliest registered, is fulfilled and
\* removed; every other matching wait stays pending and registered.
C1_SingleFulfilment ==
  [][\A m \in Codes :
       (dispatch_message(m) /\ Len(MatchingWaits(m)) >= 2) =>
         LET M == MatchingWaits(m)
         IN /\ fut'[M[1]] = "result"
            /\ M[1] \notin Range(message_waiters')
            /\ \A i \in 2..Len(M) :
                 fut'[M[i]] = "pending" /\ M[i] \in Range(message_waiters')]_vars

\* C1, what the code does: every pending wait whose predicate accepts the
\* message is fulfilled with it and removed; the others keep their state and
\* their order.
C1_AllMatchingFulfilled ==
  [][\A m \in Codes :
       dispatch_message(m) =>
         /\ \A w \in Waits :
              (w \in Range(message_waiters) /\ fut[w] = "pending" /\ m \in wait_pred[w])
                => (fut'[w] = "result" /\ fut_result'[w] = m
                    /\ w \notin Range(message_waiters'))
         /\ \A w \in Waits :
              ~(w \in Range(message_waiters) /\ fut[w] = "pending" /\ m \in wait_pred[w])
                => (fut'[w] = fut[w] /\ fut_result'[w] = fut_result[w]
                    /\ (w \in Range(message_waiters) <=> w \in Range(message_waiters')))]_vars

\* C4: after any split of the bytes read so far into chunks, the frames
\* yielded are those iter_frames yields on these bytes at once, the buffer
\* holds exactly the bytes not consumed, and every yielded frame is complete
\* (4 + length bytes, all of them already read).
C4_IncrementalEqualsBatch ==
  LET batch == iter_frames(SubSeq(stream, 1, pos))
  IN /\ frames = batch.frames
     /\ recv_buffer = batch.rest
     /\ Flatten(frames) \o recv_buffer = SubSeq(stream, 1, pos)
     /\ \A i \in 1..Len(frames) :
          Len(frames[i]) = 4 + unpack_u32(frames[i])
     /\ (pos = Len(stream) =>
           /\ Len(frames) = Len(sent)
           /\ \A i \in 1..Len(sent) :
                frames[i] = pack_message(sent[i].code, sent[i].payload))

\* C4 witness: two messages were read in chunks that cut a frame, both frames
\* came out and a later partial frame never did before its last byte.
C4_Witness ==
  /\ Len(frames) = 2
  /\ pos = Len(stream)
  /\ recv_buffer = <<>>
  /\ \E i \in 1..2 : Len(sent[i].payload) > 0

\* C5: every message decoded from a packed frame is the {code, payload} that
\* was packed, the empty payload included, and the length field of the frame
\* is 1 + len(payload).
C5_RoundTrip ==
  /\ codec_pc = "reading"
  /\ Len(msgs) = Len(frames)
  /\ Len(msgs) <= Len(sent)
  /\ \A i \in 1..Len(msgs) :
       /\ msgs[i] = sent[i]
       /\ unpack_u32(frames[i]) = 1 + Len(sent[i].payload)

\* C5 witness: a message with an empty payload and one with a non-empty
\* payload have both made the round trip.
C5_Witness ==
  /\ Len(msgs) = 2
  /\ \E i \in 1..2 : msgs[i].payload = <<>>
  /\ \E i \in 1..2 : msgs[i].payload # <<>> /\ msgs[i].code = 255

Last(s) == s[Len(s)]

\* C2: cancel(id) changes no status, no bytes_received and emits nothing
\* whenever the id is unknown or the transfer's status is already completed,
\* failed or cancelled.
C2_CancelNoOpWhenTerminal ==
  [][\A id \in Transfers \cup {UnknownId} :
       (cancel(id) /\ (id \notin active \/ status[id] \in Terminal))
         => UNCHANGED <<status, bytes_received, notifications>>]_vars

\* C3: cancel(id) on an in_progress transfer sets the status to cancelled and
\* emits download_cancelled with the bytes received so far and status
\* cancelled; from then on the status stays cancelled, bytes_received and the
\* destination file do not change and no progress notification follows.
C3_CancelFreezes ==
  [][/\ \A t \in Transfers :
          (cancel(t) /\ status[t] = "in_progress") =>
            /\ status'[t] = "cancelled"
            /\ bytes_received'[t] = bytes_received[t]
            /\ notifications'[t] =
                 Append(notifications[t],
                        [name |-> "download_cancelled",
                         bytes |-> bytes_received[t], status |-> "cancelled"])
     /\ \A t \in Transfers :
          status[t] = "cancelled" =>
            /\ status'[t] = "cancelled"
            /\ bytes_received'[t] = bytes_received[t]
            /\ chunks'[t] = chunks[t]
            /\ \/ notifications'[t] = notifications[t]
               \/ /\ Len(notifications'[t]) = Len(notifications[t]) + 1
                  /\ Last(notifications'[t]).name = "download_cancelled"
                  /\ Last(notifications'[t]).bytes = bytes_received[t]]_vars

\* C3 witness: a transfer cancelled while in_progress, after it had received
\* bytes, whose task has finished unwinding.
C3_Witness ==
  \E t \in Transfers :
    /\ cancel_from[t] = "in_progress"
    /\ status[t] = "cancelled"
    /\ bytes_received[t] > 0
    /\ run_pc[t] = "done_cancelled"
    /\ Last(notifications[t]) =
         [name |-> "download_cancelled", bytes |-> bytes_received[t],
          status |-> "cancelled"]

\* the lifetime of connection c is over: it was connected, its receive task
\* has ended and no close() is running on it
LifetimeOver(c) ==
  /\ sock[c] # "none"
  /\ recv_pc[c] \in {"done", "cancelled"}
  /\ close_pc[c] = "idle"

\* C6: for each ServerConnection that was connected the disconnect callback
\* is called exactly once over its lifetime, in every order of server drop
\* and close(): never twice, and once when the lifetime is over.
C6_DisconnectExactlyOnce ==
  \A c \in Conns :
    /\ Len(disc_calls[c]) <= 1
    /\ LifetimeOver(c) => Len(disc_calls[c]) = 1

\* C7: close() on a connection that is already closed (it was connected and
\* an earlier close() has ended, so its receive task is over) raises no
\* error, changes no state and calls the disconnect callback no further time.
C7_CloseIdempotent ==
  [][\A c \in Conns :
       (sock[c] # "none" /\ close_log[c] # <<>>) =>
         /\ recv_pc[c] \in {"done", "cancelled"}
         /\ disc_calls'[c] = disc_calls[c]
         /\ closed_ev'[c] = closed_ev[c]
         /\ (close_log'[c] # close_log[c] =>
               close_log'[c] = Append(close_log[c], "returned"))]_vars

\* C8: once SoulseekClient.close() was called (the stop flag is set), no
\* _reconnect task starts opening a connection, none gets one opened, and
\* none sets the session connected.
C8_NoReconnectAfterClose ==
  [][stop_flag =>
       \A r \in ReconTasks :
         /\ ~(task_pc[r] = "sleeping" /\ task_pc'[r] = "opening")
         /\ ~(task_pc[r] = "opening" /\ task_pc'[r] = "emit_connected")]_vars

\* a _reconnect task that will open a connection or schedule the next attempt
AttemptPending(r) == task_pc[r] \in {"sleeping", "opening", "emit_log"}

\* C9: with auto-reconnect on and the session not stopped, no disconnect is
\* left without a pending or running reconnect attempt: when a disconnect
\* has been handled and no connection is open or being opened, some
\* _reconnect task is sleeping, connecting or about to schedule its retry.
C9_DisconnectHasAttempt ==
  ( /\ auto_reconnect
    /\ ~stop_flag
    /\ \E c \in Conns : recv_pc[c] = "done"
    /\ \A c \in Conns : recv_pc[c] \notin RecvAlive
    /\ \A k \in Callers : task_pc[k] \notin {"opening", "emit_connected"} )
  => \E r \in ReconTasks : AttemptPending(r)

\* a _reconnect task in flight: sleeping in its delay or opening a connection
InFlight(r) == task_pc[r] \in {"sleeping", "opening"}

C11_CloseCompletes ==
  [][(client_closes' = client_closes + 1 /\ connected)
       => (client_close_log' = client_close_log /\ ping_task' # "running")]_vars


\* C12: a call of authenticate that got to wait for the login reply returns
\* successfully on a login-accepted reply, fails with an authentication error
\* on a login-rejected reply, and fails with a protocol error on every other
\* outcome of the wait, the expiry of the timeout included.
C12_OutcomeMapping ==
  \A a \in Auths :
    (auth_pc[a] = "done" /\ auth_wait[a] # 0 /\ auth_out[a] # "cancelled") =>
      LET w == auth_wait[a]
          replied == fut[w] = "result"
      IN /\ (replied /\ fut_result[w] = MSG_LOGIN_OK) => auth_out[a] = "ok"
         /\ (replied /\ fut_result[w] = MSG_LOGIN_ERROR)
              => auth_out[a] = "authentication_error"
         /\ ~(replied /\ fut_result[w] \in LoginPred)
              => auth_out[a] = "protocol_error"

\* C13: at most one call of authenticate is inside its login sequence, the
\* lock is held exactly while some call is inside it (so every exit path has
\* released it), and whenever the lock is free with callers queued one of
\* them has been woken.
C13_LoginSerialized ==
  /\ Cardinality({a \in Auths : auth_pc[a] \in InLogin}) <= 1
  /\ lock_locked <=> (\E a \in Auths : auth_pc[a] \in InLogin)
  /\ (~lock_locked /\ lock_waiters # <<>>)
       => \E a \in Range(lock_waiters) : auth_pc[a] = "woken"
  /\ \A a \in Auths : auth_pc[a] \in {"acquiring", "woken"} <=> a \in Range(lock_waiters)

\* a queued call has been woken by a call whose wait for the login reply
\* ended with a timeout or with a rejection
C13_Witness ==
  \E a, b \in Auths :
    /\ auth_out[a] \in {"timeout_error", "authentication_error"}
    /\ auth_wait[a] # 0
    /\ auth_pc[b] = "woken"


\* C17: the pending set holds only waits whose caller is still blocked in
\* _wait_for_message; a wait that returned was fulfilled by a message its
\* predicate accepts; a wait that ended with the timeout error has a cancelled
\* future that no later message fulfils.
C17_WaitCleanup ==
  /\ \A w \in Range(message_waiters) : wait_pc[w] = "blocked"
  /\ \A w \in Waits :
       wait_pc[w] = "returned" => (fut[w] = "result" /\ fut_result[w] \in wait_pred[w])
  /\ \A w \in Waits :
       wait_pc[w] = "timed_out" => (fut[w] = "cancelled" /\ fut_result[w] = 0)
  /\ \A w \in Waits :
       wait_pc[w] = "cancelled" => fut[w] \in {"cancelled", "result"}

\* a wait timed out, and a message its predicate accepts was dispatched to a
\* wait registered after it
C17_Witness ==
  \E v, w \in Waits :
    /\ v < w
    /\ wait_pc[v] = "timed_out"
    /\ wait_pc[w] = "returned"
    /\ fut_result[w] \in wait_pred[v]
    /\ message_waiters = <<>>


\* C14: once the search generator has ended, or its consumer has walked away
\* from it, its listener is no longer registered.
C14_ListenerUnregistered ==
  search_pc \in {"ended", "abandoned"} => SearchSub \notin Range(listeners)

\* two strings are equal up to the case of their ASCII letters
EqIgnoreCase(a, b) ==
  /\ Len(a) = Len(b)
  /\ \A i \in DOMAIN a :
       \/ a[i] = b[i]
       \/ a[i] \in 65..90 /\ b[i] = a[i] + 32
       \/ b[i] \in 65..90 /\ a[i] = b[i] + 32

\* the messages the listener of the search was called with and that are
\* well-formed results for the requested query, in dispatch order
RECURSIVE MatchesFrom(_)
MatchesFrom(d) ==
  IF d > Len(disp_log) THEN <<>>
  ELSE LET i == disp_log[d].msg
       IN (IF /\ SearchSub \in Range(disp_log[d].called)
              /\ inbox[i].code = MSG_SEARCH_RESULT
              /\ inbox[i].good
              /\ EqIgnoreCase(inbox[i].query, search_query)
             THEN <<i>> ELSE <<>>) \o MatchesFrom(d + 1)

\* C15: the results yielded so far, followed by those still queued, are
\* exactly the well-formed replies for the requested query (ignoring case)
\* that were dispatched to the search's listener, in arrival order; replies
\* for another query and replies that do not decode are left out.
C15_SearchFiltering == yielded \o queue = MatchesFrom(1)

\* a reply that does not decode was skipped and a later reply, whose query
\* differs from the requested one in case only, was yielded
C15_Witness ==
  /\ Len(yielded) = 1
  /\ yielded[1] = 2
  /\ inbox[2].query # search_query
  /\ inbox[1].code = MSG_SEARCH_RESULT
  /\ ~inbox[1].good
  /\ SearchSub \in Range(disp_log[1].called)

\* C16: a result is yielded only by an iteration that found time remaining;
\* an iteration that starts at or after the deadline ends the sequence, also
\* with results queued; and a search that got past its send ends, unless its
\* consumer walks away from it.
C16_SearchFinite ==
  /\ [][yielded' # yielded => remaining > 0]_vars
  /\ [][(search_pc \in {"sending", "yielded"} /\ search_pc' = "waiting")
          => stop_left > 0]_vars
  /\ (search_pc \in {"waiting", "yielded"}) ~> (search_pc \in {"ended", "abandoned"})

\* the sequence ended at the deadline after yielding a result, with another
\* matching result still queued
C16_Witness ==
  /\ search_out = "exhausted"
  /\ Len(yielded) >= 1
  /\ queue # <<>>

\* the number of calls made, over all dispatches, to listeners that raise
RECURSIVE RaisedIn(_)
RaisedIn(d) ==
  IF d > Len(disp_log) THEN 0
  ELSE Cardinality({k \in DOMAIN disp_log[d].called :
                      disp_log[d].called[k] # SearchSub
                      /\ sub_kind[disp_log[d].called[k]] = "raises"}) + RaisedIn(d + 1)

\* C18: for every dispatched message the listeners called are, in order and
\* once each, those registered for its code when it was dispatched, all of
\* them once the dispatch is over, also after one of them raised; each raise
\* is reported once; a dispatch leaves the listener table as it was and the
\* receive loop running.
C18_FanOut ==
  /\ [](\A d \in DOMAIN disp_log :
          /\ Len(disp_log[d].called) <= Len(disp_log[d].subs)
          /\ disp_log[d].called = SubSeq(disp_log[d].subs, 1, Len(disp_log[d].called))
          /\ (d < Len(disp_log) \/ rx_pc = "reading")
               => disp_log[d].called = disp_log[d].subs
          /\ inbox[disp_log[d].msg].code # MSG_SEARCH_RESULT
               => disp_log[d].subs = <<>>)
  /\ [](log_count = RaisedIn(1))
  /\ [][disp_log' # disp_log
          => (listeners' = listeners /\ rx_pc' \in {"reading", "in_message"})]_vars

\* a callback registered ahead of the search's listener raised, and the
\* listener was still called and queued the result
C18_Witness ==
  \E d \in DOMAIN disp_log :
    /\ disp_log[d].subs = <<1, SearchSub>>
    /\ sub_kind[1] = "raises"
    /\ disp_log[d].called = disp_log[d].subs
    /\ disp_log[d].msg \in Range(queue) \cup Range(yielded)

\* C19: the d-th message dispatched is the d-th message that arrived, every
\* dispatch but the last has called all its listeners (it finished before the
\* next began), and the search consumer gets results in arrival order.
C19_ArrivalOrder ==
  /\ Len(disp_log) = rx
  /\ \A d \in DOMAIN disp_log : disp_log[d].msg = d
  /\ \A d \in DOMAIN disp_log :
       d < Len(disp_log) => disp_log[d].called = disp_log[d].subs
  /\ LET seen == yielded \o queue
     IN \A j, k \in DOMAIN seen : j < k => seen[j] < seen[k]

\* two results were yielded in order although the dispatch of the first was
\* suspended in a callback
C19_Witness ==
  /\ yielded = <<1, 2>>
  /\ sub_kind[1] = "suspends"
  /\ 1 \in Range(disp_log[1].subs)


\* the connection has no active socket: it was never connected, its receive
\* task has ended, or a close() has run
NoActiveSocket(c) ==
  \/ sock[c] = "none"
  \/ recv_pc[c] \in {"done", "cancelled"}
  \/ close_log[c] # <<>>

\* C20: a call of send on a connection without an active socket fails with
\* the not-connected error and writes nothing.
C20_SendNeedsSocket ==
  [][\A c \in DirectConns :
       (send_log'[c] # send_log[c] /\ NoActiveSocket(c))
         => Last(send_log'[c]) = "not_connected"]_vars


\* the order of the lifecycle
Rank(st) ==
  CASE st = "none" -> 0
    [] st = "queued" -> 1
    [] st = "connecting" -> 2
    [] st = "in_progress" -> 3
    [] OTHER -> 4

\* C24: a status is created queued and only moves forward: completed is
\* reached only from in_progress, failed only from connecting or in_progress,
\* cancelled only from a status that is not terminal, and no status is
\* followed by an earlier or by another terminal one.
C24_StatusForward ==
  [][\A t \in Transfers :
       status'[t] # status[t] =>
         /\ Rank(status'[t]) > Rank(status[t])
         /\ status[t] = "none" => status'[t] = "queued"
         /\ status'[t] = "completed" => status[t] = "in_progress"
         /\ status'[t] = "failed" => status[t] \in {"connecting", "in_progress"}
         /\ status'[t] = "cancelled" => status[t] \notin Terminal]_vars

\* the terminal notifications emitted for a transfer
TerminalNotes(t) ==
  SelectSeq(notifications[t],
            LAMBDA n : n.name \in {"download_completed", "download_failed",
                                   "download_cancelled"})

\* C25: at most one of download_completed, download_failed and
\* download_cancelled is emitted for a transfer, and the one emitted carries
\* the handle's status.
C25_OneTerminalNote ==
  \A t \in Transfers :
    /\ Len(TerminalNotes(t)) <= 1
    /\ Len(TerminalNotes(t)) = 1 => TerminalNotes(t)[1].status = status[t]


RECURSIVE SumSeq(_)
SumSeq(q) == IF q = <<>> THEN 0 ELSE Head(q) + SumSeq(Tail(q))

\* the download_progress notifications emitted for a transfer
ProgressNotes(t) ==
  SelectSeq(notifications[t], LAMBDA n : n.name = "download_progress")

\* C21: bytes_received is the sum of the chunks received so far, the k-th
\* progress notification carries the sum of the first k chunks,
\* bytes_received never decreases, and the status becomes completed only at
\* a zero-length read of a transfer that is in_progress and has no error.
C21_Progress ==
  /\ [](\A t \in Transfers :
          /\ bytes_received[t] = SumSeq(chunks[t])
          /\ Len(ProgressNotes(t)) = Len(chunks[t])
          /\ \A k \in DOMAIN chunks[t] :
               ProgressNotes(t)[k].bytes = SumSeq(SubSeq(chunks[t], 1, k)))
  /\ [][\A t \in Transfers : bytes_received'[t] >= bytes_received[t]]_vars
  /\ [][\A t \in Transfers :
          (status'[t] = "completed" /\ status[t] # "completed")
            => /\ run_pc[t] = "read"
               /\ run_pc'[t] = "emit_completed"
               /\ status[t] = "in_progress"
               /\ ~error[t]]_vars

\* a transfer completed after two chunks of different sizes
C21_Witness ==
  \E t \in Transfers :
    /\ status[t] = "completed"
    /\ chunks[t] = <<1, 2>>
    /\ bytes_received[t] = 3


\* the download_failed notifications emitted for a transfer
FailedNotes(t) ==
  SelectSeq(notifications[t], LAMBDA n : n.name = "download_failed")

\* the state of a transfer
TransferState(t) ==
  <<status[t], bytes_received[t], error[t], local_bytes[t], chunks[t], writer[t],
    notifications[t], run_pc[t], must_cancel[t]>>

C26_ReplyNeverLost ==
  \A a \in Auths : ~auth_missed[a]

\* the file records of the supplied results whose result has the user and
\* the folder asked for, as <<result index, file index>>
MatchingFiles ==
  {<<r, f>> \in (1..Len(folder_results)) \X (1..2) :
     /\ f <= Len(folder_results[r].files)
     /\ folder_results[r].user = folder_user
     /\ folder_results[r].folder = folder_path}

\* <<r1, f1>> comes before <<r2, f2>> in the supplied results
Before(a, b) == a[1] < b[1] \/ (a[1] = b[1] /\ a[2] < b[2])

\* C22: download_folder calls download_file only for file records of
\* results with the user and the folder asked for, once each and in the
\* order of the results, with that user and the path of the record; no
\* other transfer is started; at the return a call was made for every such
\* record and the handles returned are those of the calls, in order.
C22_FolderDownload ==
  /\ \A k \in 1..Len(folder_calls) :
       LET c == folder_calls[k]
       IN /\ <<c.r, c.f>> \in MatchingFiles
          /\ c.user = folder_user
          /\ c.remote_path =
               replace_slashes(folder_path \o <<Slash>> \o folder_results[c.r].files[c.f])
          /\ \A j \in 1..(k - 1) :
               /\ Before(<<folder_calls[j].r, folder_calls[j].f>>, <<c.r, c.f>>)
               /\ folder_calls[j].handle # c.handle
  /\ {t \in Transfers : dl_pc[t] # "idle"} = {folder_calls[k].handle : k \in 1..Len(folder_calls)}
  /\ Len(tasks) <= Len(folder_calls)
  /\ \A k \in 1..Len(tasks) : tasks[k] = folder_calls[k].handle
  /\ folder_pc = "returned"
       => /\ {<<folder_calls[k].r, folder_calls[k].f>> : k \in 1..Len(folder_calls)} = MatchingFiles
          /\ Len(tasks) = Len(folder_calls)
          /\ \A t \in Range(tasks) : dl_pc[t] = "returned" /\ status[t] = "queued"

\* download_folder returned two handles for a user's folder from results
\* that also hold files of another user and of another folder of the user
C22_Witness ==
  /\ folder_pc = "returned"
  /\ Len(tasks) = 2
  /\ \E r \in 1..Len(folder_results) :
       folder_results[r].user # folder_user /\ folder_results[r].files # <<>>
  /\ \E r \in 1..Len(folder_results) :
       /\ folder_results[r].user = folder_user
       /\ folder_results[r].folder # folder_path
       /\ folder_results[r].files # <<>>

====
